---- MODULE Spec2Model ----
(***************************************************************************)
(* Model of the resume "unbiasing" pipeline of src/api:                    *)
(*   embeddings.main  ->  cluster_analysis.main  ->  create_unbiased_dataset*)
(* sequenced by main.py in one working directory.                          *)
(*                                                                         *)
(* Records are identified by their position 0..N-1 in the input CSV.  A    *)
(* row of a CSV file or of an embedding array is represented by the        *)
(* original position of the record it was copied from, so that "row j of   *)
(* file A and row j of file B belong to the same record" can be stated.    *)
(*                                                                         *)
(* External libraries are modelled by what the code relies on:             *)
(*   - HDBSCAN.fit_predict returns some labelling (chosen in Stage1);      *)
(*   - PCA.fit stores the reference matrix, PCA.transform is row-wise;     *)
(*     the Euclidean norm of a projected row is an input (NormProfiles);   *)
(*   - random.seed / random.sample and list(set(...)) are the CPython      *)
(*     algorithms (Mersenne Twister output is tabulated).                  *)
(***************************************************************************)
EXTENDS Integers, Sequences, FiniteSets, TLC

\* ------------------------------------------------------------------ bounds
\* The input has NumBlocks * BlockSize records.  HDBSCAN labellings are
\* enumerated block-wise: all records of a block share one label.
NumBlocks == 2
BlockSize == 17
\* largest --cluster_count value enumerated (the program allows 1..10)
MaxK == 2

\* --------------------------------------------------------- program constants
MinClusterSize == 10
NComponents == 6
Seed == 42
\* 1e-10, the floor of cluster_analysis.normalize_embeddings, in units of 1e-11
NormFloor == 10
LINEAR_PROBES == 9
PERTURB_SHIFT == 5
PySet_MINSIZE == 8

\* a file of the working directory: absent, present with rows, or present
\* but unreadable
NoFile == [state |-> "absent", rows |-> <<>>]
File(rows) == [state |-> "present", rows |-> rows]
CorruptFile == [state |-> "corrupt", rows |-> <<>>]
Exists(f) == f.state # "absent"
\* an unused slot of a hash table
Empty == -1

\* --------------------------------------------------------------- sequences
Min(S) == CHOOSE x \in S : \A y \in S : x <= y

Range(s) == {s[i] : i \in 1..Len(s)}

IsAscending(s) == \A i \in 1..(Len(s) - 1) : s[i] < s[i + 1]

\* the elements of a finite set of integers in ascending order
SortedSeq(S) ==
  [k \in 1..Cardinality(S) |->
     CHOOSE x \in S : Cardinality({y \in S : y < x}) = k - 1]

\* Op(v), with v computed before Op is entered.  TLC passes the arguments of
\* an operator unevaluated; a loop written as a recursion would otherwise
\* nest one pending argument per iteration.  Loops are split in halves and
\* the state after the first half is computed before the second is entered.
Eager(Op(_), v) == CHOOSE r \in {Op(x) : x \in {v}} : TRUE

RECURSIVE Pow2(_)
Pow2(k) == IF k = 0 THEN 1 ELSE 2 * Pow2(k - 1)

\* int.bit_length() for n >= 0
RECURSIVE BitLength(_)
BitLength(n) == IF n = 0 THEN 0 ELSE 1 + BitLength(n \div 2)

\* ------------------------------------------------- IEEE-754 double arithmetic
\* A natural number of any size is the sequence of its digits in base Limb,
\* the lowest first and the highest nonzero.  Each operation takes its
\* operands through a bound variable, so that an operand is evaluated once.
Limb == Pow2(15)
LimbBits == BitLength(Limb - 1)

Top(S) == CHOOSE x \in S : \A y \in S : y <= x

At(a, i) == IF i >= 1 /\ i <= Len(a) THEN a[i] ELSE 0

\* the digits without the zeros at the high end
Trim(digits) ==
  CHOOSE t \in
    {IF nz = {} THEN <<>> ELSE SubSeq(digits, 1, Top(nz)) :
       nz \in {{i \in 1..Len(digits) : digits[i] # 0}}} : TRUE

BigFromInt(n) ==
  Trim(<<n % Limb, (n \div Limb) % Limb, n \div (Limb * Limb)>>)

BigLess(x, y) ==
  \E a \in {x}, b \in {y} :
     \/ Len(a) < Len(b)
     \/ /\ Len(a) = Len(b)
        /\ \E i \in 1..Len(a) :
             a[i] < b[i] /\ \A j \in (i + 1)..Len(a) : a[j] = b[j]

BigAdd(x, y) ==
  CHOOSE sum \in
    {LET n == (IF Len(a) > Len(b) THEN Len(a) ELSE Len(b)) + 1
         carry(i) ==
           IF \E j \in 1..(i - 1) :
                 /\ At(a, j) + At(b, j) >= Limb
                 /\ \A k \in (j + 1)..(i - 1) : At(a, k) + At(b, k) = Limb - 1
           THEN 1 ELSE 0
     IN Trim([i \in 1..n |-> (At(a, i) + At(b, i) + carry(i)) % Limb]) :
       a \in {x}, b \in {y}} : TRUE

\* x - y for x >= y
BigSub(x, y) ==
  CHOOSE diff \in
    {LET borrow(i) ==
           IF \E j \in 1..(i - 1) :
                 /\ At(a, j) < At(b, j)
                 /\ \A k \in (j + 1)..(i - 1) : At(a, k) = At(b, k)
           THEN 1 ELSE 0
     IN Trim([i \in 1..Len(a) |->
                (At(a, i) - At(b, i) - borrow(i) + Limb) % Limb]) :
       a \in {x}, b \in {y}} : TRUE

\* x * 2^k
BigShl(x, k) ==
  CHOOSE shifted \in
    {Trim([i \in 1..(Len(a) + q + 1) |->
             ((At(a, i - q) * Pow2(r)) % Limb)
               + (At(a, i - q - 1) \div Pow2(LimbBits - r))]) :
       a \in {x}, q \in {k \div LimbBits}, r \in {k % LimbBits}} : TRUE

\* x \div 2^k
BigShr(x, k) ==
  CHOOSE shifted \in
    {IF Len(a) <= q THEN <<>>
     ELSE Trim([i \in 1..(Len(a) - q) |->
                  (At(a, i + q) \div Pow2(r))
                    + ((At(a, i + q + 1) % Pow2(r)) * Pow2(LimbBits - r))]) :
       a \in {x}, q \in {k \div LimbBits}, r \in {k % LimbBits}} : TRUE

BigBitLen(x) ==
  CHOOSE n \in
    {IF a = <<>> THEN 0
     ELSE LimbBits * (Len(a) - 1) + BitLength(a[Len(a)]) : a \in {x}} : TRUE

BigBit(a, i) == (At(a, i \div LimbBits + 1) \div Pow2(i % LimbBits)) % 2

\* one step of the long division of num by den: the bit i of num is taken
\* down to the remainder
DivStep(num, den, st, i) ==
  CHOOSE next \in
    {IF BigLess(r2, den)
     THEN [q |-> q2, r |-> r2]
     ELSE [q |-> BigAdd(q2, <<1>>), r |-> BigSub(r2, den)] :
       r2 \in {BigAdd(BigShl(st.r, 1), BigFromInt(BigBit(num, i)))},
       q2 \in {BigShl(st.q, 1)}} : TRUE

\* the steps for the bits hi down to lo
RECURSIVE DivBits(_, _, _, _, _)
DivBits(num, den, st, hi, lo) ==
  IF hi < lo THEN st
  ELSE IF hi = lo THEN DivStep(num, den, st, hi)
  ELSE CHOOSE last \in
         {DivBits(num, den, s, (hi + lo + 1) \div 2 - 1, lo) :
            s \in {DivBits(num, den, st, hi, (hi + lo + 1) \div 2)}} : TRUE

\* quotient and remainder of x by y > 0
BigDivMod(x, y) ==
  CHOOSE dm \in
    {DivBits(num, den, [q |-> <<>>, r |-> <<>>], BigBitLen(num) - 1, 0) :
       num \in {x}, den \in {y}} : TRUE

\* A double is zero, infinite, or m * 2^e with 2^52 <= m < 2^53 (the values
\* met here are not negative and not subnormal).
MantissaBits == 53
DoubleZero == [cls |-> "zero", m |-> <<>>, e |-> 0]
DoubleInf == [cls |-> "inf", m |-> <<>>, e |-> 0]

\* the mantissa m0 of t dropped bits of x, rounded up when `up`
Rounded(m0, up, e) ==
  CHOOSE d \in
    {IF BigBitLen(m1) > MantissaBits
     THEN [cls |-> "finite", m |-> BigShr(m1, 1), e |-> e + 1]
     ELSE [cls |-> "finite", m |-> m1, e |-> e] :
       m1 \in {IF up THEN BigAdd(m0, <<1>>) ELSE m0}} : TRUE

\* the double nearest to v * 2^e (plus a positive rest below 2^e when
\* `inexact`), ties to the even mantissa
RoundToDouble(v, e, inexact) ==
  CHOOSE d \in
    {IF x = <<>> THEN DoubleZero
     ELSE IF t <= 0
     THEN [cls |-> "finite", m |-> BigShl(x, 0 - t), e |-> e + t]
     ELSE CHOOSE r \in
            {Rounded(m0,
                     /\ BigBit(x, t - 1) = 1
                     /\ \/ inexact
                        \/ BigShl(BigShr(x, t - 1), t - 1) # x
                        \/ BigBit(m0, 0) = 1,
                     e + t) : m0 \in {BigShr(x, t)}} : TRUE :
       x \in {v}, t \in {BigBitLen(v) - MantissaBits}} : TRUE

\* the double nearest to x / y, for naturals x, y > 0
RoundRatio(x, y) ==
  LET s == MantissaBits + 2 - (BigBitLen(x) - BigBitLen(y))
  IN CHOOSE d \in
       {RoundToDouble(dm.q, 0 - s, dm.r # <<>>) :
          dm \in {BigDivMod(IF s >= 0 THEN BigShl(x, s) ELSE x,
                            IF s >= 0 THEN y ELSE BigShl(y, 0 - s))}} : TRUE

\* x + y in double arithmetic
DoubleAdd(x, y) ==
  CHOOSE sum \in
    {IF a.cls = "inf" \/ b.cls = "inf" THEN DoubleInf
     ELSE IF a.cls = "zero" THEN b
     ELSE IF b.cls = "zero" THEN a
     ELSE LET e0 == IF a.e < b.e THEN a.e ELSE b.e
          IN RoundToDouble(BigAdd(BigShl(a.m, a.e - e0), BigShl(b.m, b.e - e0)),
                           e0, FALSE) :
       a \in {x}, b \in {y}} : TRUE

\* 1.0 / x in double arithmetic (numpy gives inf for x = 0.0)
DoubleReciprocal(x) ==
  CHOOSE r \in
    {IF s.cls = "zero" THEN DoubleInf
     ELSE IF s.cls = "inf" THEN DoubleZero
     ELSE [RoundRatio(<<1>>, s.m) EXCEPT !.e = @ - s.e] : s \in {x}} : TRUE

\* x < y for doubles
DoubleLess(x, y) ==
  \E a \in {x}, b \in {y} :
     IF a.cls = "inf" THEN FALSE
     ELSE IF b.cls = "inf" THEN TRUE
     ELSE IF b.cls = "zero" THEN FALSE
     ELSE IF a.cls = "zero" THEN TRUE
     ELSE \/ a.e < b.e
          \/ a.e = b.e /\ BigLess(a.m, b.m)

\* the next double above a finite positive one
DoubleNextUp(x) ==
  CHOOSE d \in
    {IF BigBitLen(m1) > MantissaBits
     THEN [a EXCEPT !.m = BigShr(m1, 1), !.e = @ + 1]
     ELSE [a EXCEPT !.m = m1] :
       a \in {x}, m1 \in {BigAdd(x.m, <<1>>)}} : TRUE

\* n * 2^e for a small natural n
Dyadic(n, e) == RoundToDouble(BigFromInt(n), e, FALSE)

\* the double a decimal literal of n millionths denotes
Millionths(n) == RoundRatio(BigFromInt(n), BigFromInt(1000000))

\* ------------------------------------------------- CPython set of small ints
\* hash(i) = i for the non-negative ints used as resume ids.
\* A set object is [size, fill, table]; table[j] = Empty for an unused slot.
NewSet == [size |-> PySet_MINSIZE, fill |-> 0,
           table |-> [j \in 0..(PySet_MINSIZE - 1) |-> Empty]]

\* the slot where key is found or will be stored (open addressing with
\* LINEAR_PROBES linear probes, then the perturbed recurrence)
RECURSIVE SetLookSlot(_, _, _, _, _)
SetLookSlot(table, size, key, i, perturb) ==
  LET probes == IF i + LINEAR_PROBES <= size - 1 THEN LINEAR_PROBES ELSE 0
      hits == {j \in i..(i + probes) : table[j] = Empty \/ table[j] = key}
      p2 == perturb \div Pow2(PERTURB_SHIFT)
  IN IF hits # {} THEN Min(hits)
     ELSE SetLookSlot(table, size, key, (i * 5 + 1 + p2) % size, p2)

\* set_insert_clean applied to the keys of a sequence, in order (the loop
\* is split in halves)
RECURSIVE SetInsertClean(_, _, _)
SetInsertClean(table, size, keys) ==
  IF keys = <<>> THEN table
  ELSE IF Len(keys) = 1
  THEN LET k == keys[1]
           slot == SetLookSlot(table, size, k, k % size, k)
       IN [table EXCEPT ![slot] = k]
  ELSE LET h == Len(keys) \div 2
           Rest(first) == SetInsertClean(first, size, SubSeq(keys, h + 1, Len(keys)))
       IN Eager(Rest, SetInsertClean(table, size, SubSeq(keys, 1, h)))

\* the keys of a table in slot order (iteration order of the set)
TableKeys(table, size) ==
  SelectSeq([j \in 1..size |-> table[j - 1]], LAMBDA k : k # Empty)

RECURSIVE SetNewSize(_, _)
SetNewSize(newsize, minused) ==
  IF newsize <= minused THEN SetNewSize(2 * newsize, minused) ELSE newsize

set_table_resize(so, minused) ==
  LET newsize == SetNewSize(PySet_MINSIZE, minused)
      old == TableKeys(so.table, so.size)
  IN [size |-> newsize, fill |-> so.fill,
      table |-> SetInsertClean([j \in 0..(newsize - 1) |-> Empty], newsize, old)]

set_add_entry(so, key) ==
  LET slot == SetLookSlot(so.table, so.size, key, key % so.size, key)
  IN IF so.table[slot] = key THEN so
     ELSE LET s1 == [so EXCEPT !.table[slot] = key, !.fill = so.fill + 1]
          IN IF s1.fill * 5 < (s1.size - 1) * 3 THEN s1
             ELSE set_table_resize(s1, s1.fill * 4)

\* set(lst): the elements are added in order (loop split in halves)
RECURSIVE SetFromList(_, _)
SetFromList(so, lst) ==
  IF lst = <<>> THEN so
  ELSE IF Len(lst) = 1 THEN set_add_entry(so, lst[1])
  ELSE LET h == Len(lst) \div 2
           Rest(first) == SetFromList(first, SubSeq(lst, h + 1, Len(lst)))
       IN Eager(Rest, SetFromList(so, SubSeq(lst, 1, h)))

\* list(set(lst)): the distinct elements of lst in CPython iteration order
ListOfSet(lst) ==
  LET so == SetFromList(NewSet, lst) IN TableKeys(so.table, so.size)

\* ------------------------------------------------- random (Mersenne Twister)
\* The generator state after random.seed(s) followed by pos calls of
\* genrand_uint32 is [seed |-> s, pos |-> pos].  MT42 and MT0 tabulate the top
\* 8 bits of the successive 32-bit outputs after random.seed(42) and
\* random.seed(0); getrandbits(k), k <= 8, is the top k bits of one output.
\* Seed 0 stands for a generator that was never seeded by the program.
MT42 ==
  <<
     163, 28, 6, 189, 70, 62, 57, 35, 188, 26, 173, 189, 228, 139, 22, 151,
     108, 8, 7, 23, 55, 59, 129, 154, 6, 143, 50, 183, 166, 179, 139, 107,
     56, 114, 150, 71, 207, 222, 1, 194, 206, 40, 178, 108, 87, 71, 39, 55,
     245, 195, 86, 26, 23, 97, 24, 91, 216, 88, 154, 67, 206, 11, 186, 117,
     137, 31, 249, 236, 96, 20, 141, 75, 212, 160, 158, 226, 220, 92, 147, 49,
     180, 17, 11, 169, 58, 197, 74, 252, 20, 218, 59, 221, 25, 97, 71, 116,
     162, 213, 93, 41, 94, 90, 53, 171, 68, 179, 239, 174, 165, 18, 155, 162,
     43, 136, 186, 62, 41, 118, 97, 69, 253, 236, 163, 176, 142, 56, 175, 83,
     215, 196, 198, 14, 58, 210, 8, 206, 80, 102, 68, 16, 54, 233, 241, 145,
     224, 183, 80, 54, 167, 127, 101, 226, 234, 164, 117, 36, 67, 35, 63, 190
  >>

MT0 ==
  <<
     216, 98, 194, 227, 107, 10, 66, 247, 130, 124, 103, 235, 200, 212, 77, 247,
     122, 91, 149, 228, 232, 55, 129, 35, 72, 35, 193, 24, 158, 204, 64, 252,
     232, 136, 251, 180, 207, 154, 230, 37, 79, 25, 186, 18, 230, 217, 175, 84,
     120, 143, 25, 90, 111, 80, 156, 163, 233, 52, 247, 141, 122, 113, 221, 133,
     66, 15, 206, 235, 140, 234, 3, 23, 184, 215, 102, 181, 211, 200, 171, 160,
     0, 156, 126, 211, 222, 85, 62, 186, 83, 180, 222, 16, 48, 234, 145, 56,
     61, 205, 247, 36, 205, 139, 114, 23, 20, 254, 81, 224, 130, 255, 238, 125,
     27, 77, 141, 74, 180, 31, 140, 85, 208, 236, 138, 52, 246, 204, 154, 140,
     150, 73, 113, 23, 152, 204, 98, 81, 147, 61, 74, 47, 48, 210, 47, 8,
     156, 251, 168, 66, 121, 17, 22, 173, 193, 33, 224, 38, 236, 9, 215, 20
  >>

MTStream(s) == IF s = Seed THEN MT42 ELSE MT0

\* a generator whose seed() leaves the state as it was
random_seed_Skipped(rng, a) == rng

\* random.seed(a)
random_seed(rng, a) == [seed |-> a, pos |-> 0]

\* random.getrandbits(k) for 0 < k <= 8: <<value, next state>>
getrandbits(rng, k) ==
  LET st == MTStream(rng.seed)
      w == st[(rng.pos % Len(st)) + 1]
  IN <<w \div Pow2(8 - k), [rng EXCEPT !.pos = rng.pos + 1]>>

\* Random._randbelow_with_getrandbits(n), n > 0: rejection sampling
RECURSIVE randbelow(_, _)
randbelow(rng, n) ==
  LET d == getrandbits(rng, BitLength(n))
  IN IF d[1] < n THEN d ELSE randbelow(d[2], n)

\* one iteration of the loop of random.sample over its pool:
\*   j = randbelow(n - i); result[i] = pool[j]; pool[j] = pool[n - i - 1]
SampleStep(st, n, i) ==
  LET d == randbelow(st.rng, n - i)
      j == d[1] + 1
  IN [rng |-> d[2],
      result |-> Append(st.result, st.pool[j]),
      pool |-> [st.pool EXCEPT ![j] = st.pool[n - i]]]

\* iterations i..k-1 of that loop (the branch of random.sample taken whenever
\* k = n // 2, where n <= setsize always holds); the loop is split in halves
RECURSIVE SamplePool(_, _, _, _)
SamplePool(st, n, i, k) ==
  IF i >= k THEN st
  ELSE IF k = i + 1 THEN SampleStep(st, n, i)
  ELSE LET m == (i + k) \div 2
           Rest(first) == SamplePool(first, n, m, k)
       IN Eager(Rest, SamplePool(st, n, i, m))

\* random.sample(population, k): <<result, next state>>
random_sample(rng, population, k) ==
  LET st == SamplePool([rng |-> rng, result |-> <<>>, pool |-> population],
                       Len(population), 0, k)
  IN <<st.result, st.rng>>

\* ------------------------------------------------------------------ state
VARIABLES
  pc,                    \* position of main.py: "stage1", "stage2", "stage3",
                         \*   "completed" or "failed", and where a stage
                         \*   waits: "generate_embeddings" (stage 1, for the
                         \*   sentence model), "analyze_cluster" (stage 2,
                         \*   for the answer of co.chat)
  input,                 \* the --input CSV: [exists, rows, index_column,
                         \*   index_base], and clustering: what is known of the
                         \*   outcome of HDBSCAN in the run on it ("any" when
                         \*   nothing is)
  n_clusters,            \* cluster_count after main.py clamps it
  norm_profile,          \* which projected rows are degenerate (see ProjNorm)
  resume_embeddings_npy, \* file resume_embeddings.npy
  embedded,              \* the table whose embeddings that file holds: what
                         \*   is known of the outcome of HDBSCAN on them (as
                         \*   input.clustering)
  cleaned_resumes_csv,   \* file cleaned_resumes.csv
  clusters_dir,          \* whether clusters/ exists
  cluster_csv,           \* rank -> file clusters/cluster_<rank>.csv
  all_clusters_csv,      \* file all_clusters.csv: its 'cluster' column
  cluster_json,          \* rank -> file cluster_<rank>_embeddings.json
  cluster_6d,            \* rank -> file cluster_<rank>_embeddings_6d.npy
  analyses,              \* ranks with a cluster_analysis/cluster_<rank>_analysis.txt
  densest,               \* what find_dense_clusters returned in stage 1
  cluster_files,         \* the cluster files stage 2 has listed and not yet
                         \*   analyzed, in the order of its loop
  rng,                   \* state of the global generator of module random
  faults,                \* number of embedding files the environment damaged
  out,                   \* what create_unbiased_dataset computed and wrote
  probe,                 \* a call of the clustering code taken on its own:
                         \*   its arguments and, once returned, its results
  uploads,               \* upload request -> what became of it in flask_app
  markers,               \* job -> marker files in its directory uploads/<id>
  reported,              \* job -> status the last status query returned
  reduction_log,         \* the 6-D arrays written, each with the steps that
                         \*   produced it
  job_id,                \* the --job_id of the main.py process whose position
                         \*   and arguments are in pc, input, n_clusters,
                         \*   densest, cluster_files and rng
  procs                  \* job -> position and arguments of its main.py
                         \*   process, for the processes other than job_id

vars == <<pc, input, n_clusters, norm_profile, resume_embeddings_npy,
          embedded, cluster_files, cleaned_resumes_csv, clusters_dir, cluster_csv, all_clusters_csv,
          cluster_json, cluster_6d, analyses, densest, rng, faults, out,
          probe, uploads, markers, reported, reduction_log, job_id, procs>>

N == NumBlocks * BlockSize
\* an input cut out of a larger table keeps the indices of that table: they
\* count from IndexShift instead of 0, which leaves 3 of them below the
\* number of rows, or from PartialShift, which leaves 11
IndexShift == N - 3
PartialShift == N - 11
Records == 0..(N - 1)
\* cluster files that can exist: ranks 1..MaxK, and the targets 1, 2, 3
top_clusters == <<1, 2, 3>>
Ranks == 1..(IF MaxK > 3 THEN MaxK ELSE 3)

\* upload requests the HTTP layer receives
MaxUploads == 2
Jobs == 1..MaxUploads

\* the rows 0..n-1 of a frame or array, each row named by its record
RowsOf(n) == [p \in 1..n |-> p - 1]

\* value of the 'Unnamed: 0' column of record i, when the input has one:
\* the index the table had when it was saved, which counts from index_base
IndexColumnValue(i) == i + input.index_base


\* ------------------------------------------------------- find_dense_clusters
\* Labellings HDBSCAN can return for N points: every cluster has at least
\* min_cluster_size members and the labels used are 0..k-1.  They are
\* enumerated block-wise, in a contiguous and in an interleaved layout.
Layouts == {"contiguous", "interleaved"}

BlockOf(layout, i) ==
  IF layout = "contiguous" THEN i \div BlockSize ELSE i % NumBlocks

LabelOf(bl, layout) == [p \in 1..N |-> bl[BlockOf(layout, p - 1)]]

ClusterSize(labels, l) == Cardinality({p \in 1..Len(labels) : labels[p] = l})

Labellings ==
  {lab \in {LabelOf(bl, layout) :
              bl \in [0..(NumBlocks - 1) -> -1..(NumBlocks - 1)],
              layout \in Layouts} :
     \A l \in 0..(NumBlocks - 1) :
        \/ ClusterSize(lab, l) = 0 /\ \A m \in l..(NumBlocks - 1) : ClusterSize(lab, m) = 0
        \/ ClusterSize(lab, l) >= MinClusterSize}

\* An average k-nearest-neighbour distance is the double np.mean returns.
DistLess(a, b) == DoubleLess(a, b)

\* average distance of each cluster (the result of NearestNeighbors): all
\* equal (5e-6), or decreasing with the label (multiples of 5e-6)
DistProfiles == {"tied", "decreasing"}
AvgDist(profile, l) ==
  Millionths(IF profile = "tied" THEN 5 ELSE 5 * (NumBlocks - l))

\* the average distances given to the clustering code taken on its own:
\* 0.0 (identical points), 2^-100, 0.875 and the next double above 0.875
DistValues ==
  {DoubleZero, Dyadic(1, -100), Dyadic(7, -3), DoubleNextUp(Dyadic(7, -3))}

\* every average distance met
Distances ==
  DistValues \cup {AvgDist(profile, l) : profile \in DistProfiles,
                                         l \in 0..(NumBlocks - 1)}

\* k = min(5, len(cluster_points) - 1)
NeighbourCount_AtLeastOne(m) == IF m - 1 < 1 THEN 1 ELSE IF 5 < m - 1 THEN 5 ELSE m - 1

NeighbourCount(m) == IF 5 < m - 1 THEN 5 ELSE m - 1

\* the literal 1e-6
Epsilon == Millionths(1)

\* avg_dist + 1e-6 without the addend
AddEpsilon_Omitted(avg_dist) == avg_dist

\* avg_dist + 1e-6, rounded to a double
AddEpsilon(avg_dist) == DoubleAdd(avg_dist, Epsilon)

\* 1.0 / (avg_dist + 1e-6), rounded to a double, of every distance met
\* (computed once)
DensityOfDistance ==
  [avg_dist \in Distances |-> DoubleReciprocal(AddEpsilon(avg_dist))]

\* density = 1.0 / (avg_dist + 1e-6) if k > 0, else 0
Density(m, avg_dist) ==
  LET k == NeighbourCount(m)
  IN IF k > 0 THEN DensityOfDistance[avg_dist] ELSE DoubleZero

\* the comparison of two densities in sorted()
DensityLess(a, b) == DoubleLess(a, b)

\* a density that is positive and finite
PositiveFinite(d) == d.cls = "finite"

\* sorted(items, key=density, reverse=True) with the order of equal keys
\* turned around
SortedByDensityDesc_TiesReversed(items, dens) ==
  LET n == Len(items)
      Before(i, j) == \/ DensityLess(dens[items[j]], dens[items[i]])
                      \/ /\ ~DensityLess(dens[items[i]], dens[items[j]])
                         /\ i > j
  IN [k \in 1..n |->
        items[CHOOSE i \in 1..n :
                Cardinality({j \in 1..n : j # i /\ Before(j, i)}) = k - 1]]

\* sorted(items, key=density, reverse=True): descending and stable, so
\* items of equal density keep the order of the input sequence
SortedByDensityDesc(items, dens) ==
  LET n == Len(items)
      Before(i, j) == \/ DensityLess(dens[items[j]], dens[items[i]])
                      \/ /\ ~DensityLess(dens[items[i]], dens[items[j]])
                         /\ i < j
  IN [k \in 1..n |->
        items[CHOOSE i \in 1..n :
                Cardinality({j \in 1..n : j # i /\ Before(j, i)}) = k - 1]]

\* np.where(cluster_labels == label)[0].tolist()
ClusterPointIndices_FromLabelUp(cluster_labels, label) ==
  SelectSeq(RowsOf(Len(cluster_labels)), LAMBDA i : cluster_labels[i + 1] >= label)

ClusterPointIndices_Descending(cluster_labels, label) ==
  LET up == SelectSeq(RowsOf(Len(cluster_labels)), LAMBDA i : cluster_labels[i + 1] = label)
  IN [j \in 1..Len(up) |-> up[Len(up) + 1 - j]]

ClusterPointIndices(cluster_labels, label) ==
  SelectSeq(RowsOf(Len(cluster_labels)), LAMBDA i : cluster_labels[i + 1] = label)

\* n_densest = min(n_clusters, len(sorted_clusters))
NDensest_OneMore(k_clusters, n_sorted) ==
  IF k_clusters + 1 < n_sorted THEN k_clusters + 1 ELSE n_sorted

NDensest(k_clusters, n_sorted) ==
  IF k_clusters < n_sorted THEN k_clusters ELSE n_sorted

\* np.sum(cluster_labels == -1)
NoiseCount(cluster_labels) == ClusterSize(cluster_labels, -1)

\* The local variables of find_dense_clusters when it returns; avg_dists
\* gives, per label, the average distance NearestNeighbors finds.  With no
\* cluster the function returns before it computes anything else.
DenseClusterLocals(cluster_labels, avg_dists, k_clusters) ==
  LET unique_clusters == SortedSeq(Range(cluster_labels) \ {-1})
      cluster_indices ==
        [l \in Range(unique_clusters) |-> ClusterPointIndices(cluster_labels, l)]
      cluster_densities ==
        [l \in Range(unique_clusters) |->
           Density(Len(cluster_indices[l]), avg_dists[l])]
      sorted_clusters == SortedByDensityDesc(unique_clusters, cluster_densities)
      n_densest == NDensest(k_clusters, Len(sorted_clusters))
  IN IF Len(unique_clusters) = 0
     THEN [unique_clusters |-> unique_clusters]
     ELSE [unique_clusters |-> unique_clusters,
           cluster_indices |-> cluster_indices,
           cluster_densities |-> cluster_densities,
           sorted_clusters |-> sorted_clusters,
           n_densest |-> n_densest,
           noise_count |-> NoiseCount(cluster_labels)]

find_dense_clusters(cluster_labels, avg_dists, k_clusters) ==
  LET v == DenseClusterLocals(cluster_labels, avg_dists, k_clusters)
  IN IF Len(v.unique_clusters) = 0
     THEN [labels |-> <<>>, indices |-> <<>>]
     ELSE LET densest_cluster_labels == SubSeq(v.sorted_clusters, 1, v.n_densest)
          IN [labels |-> densest_cluster_labels,
              indices |-> [r \in 1..v.n_densest |->
                             v.cluster_indices[densest_cluster_labels[r]]]]

\* ------------------------------------------------------- main.py markers
\* The pipeline process followed stage by stage is the one of the first
\* upload.
RunJob == 1

\* no process is followed
NoJob == 0

\* How a stage of main.py ended: the run goes on, stage 1 returned no data,
\* something raised inside the try block, or the end of the block is reached.
StageOutcome ==
  IF pc' = "completed" THEN "finished"
  ELSE IF pc' = "failed"
  THEN IF pc = "stage1" /\ ~input.exists THEN "no_data" ELSE "raised"
  ELSE "continues"

\* a main.py that returns without a marker when stage 1 gives no data
WriteMarker_SilentNoData(files, job, outcome) ==
  IF outcome = "finished" THEN [files EXCEPT ![job] = @ \cup {"completed"}]
  ELSE IF outcome = "raised" THEN [files EXCEPT ![job] = @ \cup {"failed"}]
  ELSE files

\* (job_dir / "failed").touch() at lines 122-123 and 182-183,
\* (job_dir / "completed").touch() at lines 176-177
WriteMarker(files, job, outcome) ==
  IF outcome = "finished" THEN [files EXCEPT ![job] = @ \cup {"completed"}]
  ELSE IF outcome \in {"no_data", "raised"}
  THEN [files EXCEPT ![job] = @ \cup {"failed"}]
  ELSE files

\* ------------------------------------------------------- reduction steps
\* an entry of reduction_log: the matrix reduced (and the rank of the
\* cluster, 0 for the arrays of create_unbiased_dataset) and the steps
Reduction(matrix, rank, steps) == [matrix |-> matrix, rank |-> rank, steps |-> steps]

\* save_cluster_embeddings: StandardScaler.fit_transform, PCA.fit_transform,
\* normalize_embeddings
ClusterReductionSteps == <<"standardize", "project", "normalize">>

\* create_unbiased_dataset: pca.fit / pca.transform on the embeddings as
\* loaded, then normalize_embeddings
UnbiasedReductionSteps == <<"project", "normalize">>

\* ------------------------------------------------------- embeddings.main
\* df.iloc[indices]: rows by position
Iloc(rows, indices) == [j \in 1..Len(indices) |-> rows[indices[j] + 1]]

\* the 'cluster' column written by save_clusters_to_csv
CombinedClusterColumn(n, cluster_indices) ==
  [p \in 1..n |->
     LET hit == {r \in 1..Len(cluster_indices) : (p - 1) \in Range(cluster_indices[r])}
     IN IF hit = {} THEN -1
        ELSE CHOOSE r \in hit : \A r2 \in hit : r2 <= r]

\* a save_clusters_to_csv that numbers the files from 0: cluster_<i>.csv
save_clusters_to_csv_NumberedFromZero(df, cluster_indices, files) ==
  [cluster_csv |->
     [r \in Ranks |->
        IF r + 1 <= Len(cluster_indices) THEN File(Iloc(df, cluster_indices[r + 1]))
        ELSE files[r]],
   all_clusters_csv |-> File(CombinedClusterColumn(Len(df), cluster_indices))]

\* save_clusters_to_csv (lines 102-125): cluster_<i+1>.csv for the i-th list
\* of cluster_indices, files of other names left as they are, and the
\* combined file
save_clusters_to_csv(df, cluster_indices, files) ==
  [cluster_csv |->
     [r \in Ranks |->
        IF r <= Len(cluster_indices) THEN File(Iloc(df, cluster_indices[r]))
        ELSE files[r]],
   all_clusters_csv |-> File(CombinedClusterColumn(Len(df), cluster_indices))]

NormProfiles == {"regular", "zero"}

\* the outcomes of the embedding model and HDBSCAN considered for a run: the
\* labels of the points, the profile of the neighbour distances and the
\* profile of the projected rows
ClusteringOutcomes(clustering) ==
  IF clustering = "blocks"
  THEN {[lab |-> LabelOf([b \in 0..(NumBlocks - 1) |-> b], "contiguous"),
         dp |-> "decreasing", np |-> "regular"]}
  ELSE IF clustering = "scattered"
  THEN {[lab |-> LabelOf([b \in 0..(NumBlocks - 1) |-> 0 - 1], "contiguous"),
         dp |-> "tied", np |-> "regular"]}
  ELSE [lab : Labellings, dp : DistProfiles, np : NormProfiles]

\* `if densest_cluster_indices:` in embeddings.main
HasClusters_Always(densest_cluster_indices) == TRUE

HasClusters(densest_cluster_indices) == densest_cluster_indices # <<>>

\* embeddings.main from line 163 on, with the matrix resume_embeddings, on
\* which HDBSCAN has the outcomes ClusteringOutcomes(clustering): the cleaned
\* table is saved if there is none, the matrix is clustered and the cluster
\* files are written
ClusterAndSave(resume_embeddings, clustering) ==
  LET df == RowsOf(input.rows)
  IN /\ cleaned_resumes_csv' =
          IF ~Exists(cleaned_resumes_csv) THEN File(df)
          ELSE cleaned_resumes_csv
     /\ \E o \in ClusteringOutcomes(clustering) :
        \E lab \in {o.lab}, dp \in {o.dp}, np \in {o.np} :
        \E res \in {find_dense_clusters(
                       lab, [l \in 0..(NumBlocks - 1) |-> AvgDist(dp, l)],
                       n_clusters)} :
          LET ok == \A r \in 1..Len(res.indices) :
                      \A i \in Range(res.indices[r]) : i < Len(df)
          IN /\ Len(lab) = Len(resume_embeddings)
             /\ norm_profile' = np
             /\ densest' = res
             /\ IF ~HasClusters(res.indices)
                THEN /\ pc' = "stage2"
                     /\ UNCHANGED <<clusters_dir, cluster_csv, all_clusters_csv>>
                ELSE IF ~ok
                THEN \* df.iloc raises IndexError at the first cluster
                     \* with a position outside df; the files of the
                     \* clusters before it are already written
                     LET bad == Min({r \in 1..Len(res.indices) :
                                      \E i \in Range(res.indices[r]) : i >= Len(df)})
                     IN /\ pc' = "failed"
                        /\ clusters_dir' = TRUE
                        /\ cluster_csv' =
                             [r \in Ranks |->
                                IF r < bad THEN File(Iloc(df, res.indices[r]))
                                ELSE cluster_csv[r]]
                        /\ UNCHANGED all_clusters_csv
                ELSE \E saved \in {save_clusters_to_csv(df, res.indices,
                                                         cluster_csv)} :
                     /\ pc' = "stage2"
                     /\ clusters_dir' = TRUE
                     /\ cluster_csv' = saved.cluster_csv
                     /\ all_clusters_csv' = saved.all_clusters_csv

\* embeddings.main(input_file, cluster_count) as called by main.py step 1:
\* without input it returns None, None; with resume_embeddings.npy in the
\* directory it loads that matrix, whatever table it was computed from, and
\* goes on to the end of the stage; without, it turns to generate_embeddings
\* (line 158), which loads the sentence model and encodes the table
Stage1 ==
  /\ pc = "stage1"
  /\ IF ~input.exists
     THEN \* return None, None; main.py gives up
          /\ pc' = "failed"
          /\ UNCHANGED <<norm_profile, resume_embeddings_npy, embedded,
                         cleaned_resumes_csv, clusters_dir, cluster_csv,
                         all_clusters_csv, densest>>
     ELSE IF Exists(resume_embeddings_npy)
     THEN /\ ClusterAndSave(resume_embeddings_npy.rows, embedded)
          /\ UNCHANGED <<resume_embeddings_npy, embedded>>
     ELSE /\ pc' = "generate_embeddings"
          /\ UNCHANGED <<norm_profile, resume_embeddings_npy, embedded,
                         cleaned_resumes_csv, clusters_dir, cluster_csv,
                         all_clusters_csv, densest>>
  /\ markers' = WriteMarker(markers, job_id, StageOutcome)
  /\ UNCHANGED <<probe, uploads, reported, reduction_log, job_id, procs,
                 input, n_clusters, cluster_files,
                 cluster_json, cluster_6d, analyses, rng,
                 faults, out>>

\* generate_embeddings has returned the embeddings of the input table:
\* embeddings.main saves them as resume_embeddings.npy (line 161), over
\* whatever the directory holds by now, and goes on with them to the end of
\* the stage
generate_embeddings ==
  /\ pc = "generate_embeddings"
  /\ resume_embeddings_npy' = File(RowsOf(input.rows))
  /\ embedded' = input.clustering
  /\ ClusterAndSave(RowsOf(input.rows), input.clustering)
  /\ markers' = WriteMarker(markers, job_id, StageOutcome)
  /\ UNCHANGED <<probe, uploads, reported, reduction_log, job_id, procs,
                 input, n_clusters, cluster_files,
                 cluster_json, cluster_6d, analyses, rng,
                 faults, out>>

\* ------------------------------------------------------- PCA and normalisation
\* Euclidean norm, in units of 1e-11, of the projection of the embedding of
\* record `row` by a PCA fitted on the rows `reference`.  The embedding of
\* DegenerateRow can coincide with the mean of the reference matrix, and is
\* then projected to the origin (norm 0).
DegenerateRow == 0
RegularNorm == 100000

ProjNorm(profile, reference, row) ==
  IF row = DegenerateRow /\ row \in reference /\ profile = "zero" THEN 0
  ELSE RegularNorm

\* PCA.transform of the embeddings `rows` by a PCA fitted on `reference`:
\* row-wise, each projected row is [src, norm]
PcaTransform(profile, reference, rows) ==
  [j \in 1..Len(rows) |->
     [src |-> rows[j], norm |-> ProjNorm(profile, Range(reference), rows[j])]]

\* A normalised row is its source row divided by den, so its norm is
\* num/den: den = 0 makes every component 0/0 = NaN.
IsNaN(v) == v.den = 0
IsUnit(v) == v.den # 0 /\ v.num = v.den
IsZeroVector(v) == v.den # 0 /\ v.num = 0

\* cluster_analysis.normalize_embeddings: norms = np.maximum(norms, 1e-10)
normalize_embeddings(emb) ==
  [j \in 1..Len(emb) |->
     [src |-> emb[j].src, num |-> emb[j].norm,
      den |-> IF emb[j].norm > NormFloor THEN emb[j].norm ELSE NormFloor]]

\* the normalize_embeddings nested in create_unbiased_dataset: emb / norm
unbiased_normalize_embeddings(emb) ==
  [j \in 1..Len(emb) |->
     [src |-> emb[j].src, num |-> emb[j].norm, den |-> emb[j].norm]]

\* ------------------------------------------------------- cluster_analysis.main
\* the indices a reader of a cluster file uses for its rows: the column
\* 'Unnamed: 0' when the file has one, otherwise the row positions
ResumeIndices(index_column, rows) ==
  [j \in 1..Len(rows) |->
     IF index_column THEN IndexColumnValue(rows[j]) ELSE j - 1]

\* valid_indices = [idx for idx in resume_indices if idx < len(all_embeddings)]
ValidIndices(resume_indices, n_embeddings) ==
  SelectSeq(resume_indices, LAMBDA idx : idx < n_embeddings)

\* the entries of cluster_<n>_embeddings.json
EmbeddingEntries(valid_indices, all_embeddings) ==
  [j \in 1..Len(valid_indices) |->
     [resume_id |-> valid_indices[j],
      embedding |-> all_embeddings[valid_indices[j] + 1]]]

\* all orders in which glob can list a set of files
Orders(S) == {o \in [1..Cardinality(S) -> S] : Range(o) = S}

\* export_complete_dataset: the 'cluster' column of all_clusters.csv; a later
\* file of the listing overwrites the mapping of an earlier one
ExportColumn(order, n, index_column, files) ==
  [p \in 1..n |->
     LET hit == {k \in 1..Len(order) :
                   (p - 1) \in Range(ResumeIndices(index_column, files[order[k]].rows))}
     IN IF hit = {} THEN -1
        ELSE order[CHOOSE k \in hit : \A k2 \in hit : k2 <= k]]

\* PCA(n_components=6).fit_transform rejects a matrix of fewer rows than
\* components with a ValueError
PcaFitRaises_Never(n_rows) == FALSE

PcaFitRaises(n_rows) == n_rows < NComponents

\* save_cluster_embeddings (lines 100-192) for the cluster file `rows`:
\* it skips the cluster (returns None), or writes the JSON file and then
\* either raises in PCA (fewer rows than components) or writes the 6-D file
SaveClusterEmbeddings(profile, index_column, rows, embeddings_file) ==
  LET valid_indices ==
        IF ~Exists(embeddings_file) THEN <<>>
        ELSE ValidIndices(ResumeIndices(index_column, rows),
                          Len(embeddings_file.rows))
      entries == EmbeddingEntries(valid_indices, embeddings_file.rows)
      cluster_embeddings == [j \in 1..Len(entries) |-> entries[j].embedding]
  IN IF valid_indices = <<>>
     THEN [outcome |-> "skip", json |-> <<>>, six_d |-> <<>>]
     ELSE IF PcaFitRaises(Len(valid_indices))
     THEN [outcome |-> "raise", json |-> entries, six_d |-> <<>>]
     ELSE [outcome |-> "ok", json |-> entries,
           six_d |-> normalize_embeddings(
                       PcaTransform(profile, cluster_embeddings, cluster_embeddings))]

\* one turn of the loop of cluster_analysis.main up to the call of
\* analyze_cluster (lines 302-314) for the cluster file of rank r:
\* save_cluster_embeddings writes its JSON and 6-D files or raises
AnalysisLoopTurn(r) ==
  \E saved \in {SaveClusterEmbeddings(norm_profile, input.index_column,
                                      cluster_csv[r].rows,
                                      resume_embeddings_npy)} :
    /\ cluster_json' =
         IF saved.outcome # "skip"
         THEN [cluster_json EXCEPT ![r] = File(saved.json)] ELSE cluster_json
    /\ cluster_6d' =
         IF saved.outcome = "ok"
         THEN [cluster_6d EXCEPT ![r] = File(saved.six_d)] ELSE cluster_6d
    /\ reduction_log' =
         IF saved.outcome = "ok"
         THEN reduction_log \cup
                {Reduction("cluster_embeddings", r, ClusterReductionSteps)}
         ELSE reduction_log
    /\ pc' = IF saved.outcome = "raise" THEN "failed" ELSE "analyze_cluster"

\* cluster_analysis.main() as called by main.py step 2, up to the first call
\* of analyze_cluster: it lists the cluster files, exports the complete
\* dataset and enters its loop over the files
Stage2 ==
  /\ pc = "stage2"
  /\ LET listed == {r \in Ranks : Exists(cluster_csv[r])}
     IN IF ~clusters_dir \/ listed = {}
        THEN \* return before any work
             /\ pc' = "stage3"
             /\ UNCHANGED <<all_clusters_csv, cluster_json, cluster_6d,
                            reduction_log, cluster_files>>
        ELSE \E order \in Orders(listed) :
               /\ all_clusters_csv' =
                    IF ~Exists(cleaned_resumes_csv) THEN all_clusters_csv
                    ELSE File(ExportColumn(order, Len(cleaned_resumes_csv.rows),
                                           input.index_column, cluster_csv))
               /\ cluster_files' = order
               /\ AnalysisLoopTurn(order[1])
  /\ markers' = WriteMarker(markers, job_id, StageOutcome)
  /\ UNCHANGED <<probe, uploads, reported, job_id, procs, input, n_clusters,
                 norm_profile, resume_embeddings_npy, embedded,
                 cleaned_resumes_csv, clusters_dir, cluster_csv, densest, rng,
                 faults, out, analyses>>

\* analyze_cluster has returned (the answer of co.chat, or the text it makes
\* of an error, lines 65-83): the analysis file of the cluster is written
\* (line 320) and the loop turns to the next cluster file, or ends
analyze_cluster ==
  /\ pc = "analyze_cluster"
  /\ analyses' = analyses \cup {Head(cluster_files)}
  /\ cluster_files' = Tail(cluster_files)
  /\ IF Tail(cluster_files) = <<>>
     THEN /\ pc' = "stage3"
          /\ UNCHANGED <<cluster_json, cluster_6d, reduction_log>>
     ELSE AnalysisLoopTurn(Head(Tail(cluster_files)))
  /\ markers' = WriteMarker(markers, job_id, StageOutcome)
  /\ UNCHANGED <<probe, uploads, reported, job_id, procs, input, n_clusters,
                 norm_profile, resume_embeddings_npy, embedded,
                 cleaned_resumes_csv, clusters_dir, cluster_csv,
                 all_clusters_csv, densest, rng, faults, out>>

\* ------------------------------------------------------- create_unbiased_dataset
\* the loop over cluster_embeddings_map (lines 71-88): for each loaded cluster,
\* in insertion order, re-seed, sample half of the distinct resume ids and
\* extend indices_to_remove.  Returns the generator state, the list and, per
\* cluster, [cluster, unique_resume_ids, resume_ids_to_remove].
\* half of the ids, rounded up
NumToRemove_RoundUp(unique_resume_ids) == (Len(unique_resume_ids) + 1) \div 2

\* num_to_remove = len(unique_resume_ids) // 2
NumToRemove(unique_resume_ids) == Len(unique_resume_ids) \div 2

RECURSIVE SelectRemovals(_, _, _)
SelectRemovals(rng0, nums, data) ==
  IF nums = <<>> THEN [rng |-> rng0, indices_to_remove |-> <<>>, per_cluster |-> <<>>]
  ELSE LET cluster_num == Head(nums)
           cluster_embeddings == data[cluster_num].rows
           resume_ids == [j \in 1..Len(cluster_embeddings) |->
                            cluster_embeddings[j].resume_id]
           unique_resume_ids == ListOfSet(resume_ids)
           seeded == random_seed(rng0, Seed)
           num_to_remove == NumToRemove(unique_resume_ids)
           drawn == random_sample(seeded, unique_resume_ids, num_to_remove)
           rest == SelectRemovals(drawn[2], Tail(nums), data)
       IN [rng |-> rest.rng,
           indices_to_remove |-> drawn[1] \o rest.indices_to_remove,
           per_cluster |-> <<[cluster |-> cluster_num,
                              unique_resume_ids |-> unique_resume_ids,
                              resume_ids_to_remove |-> drawn[1]]>>
                           \o rest.per_cluster]

\* a loader that gives up at the first target it cannot load
LoadedClusters_StopAtMissing(files) ==
  SelectSeq(top_clusters,
            LAMBDA c : \A b \in Range(top_clusters) :
                          b <= c => files[b].state = "present")

\* the target clusters whose embeddings file exists and loads (lines 50-64)
LoadedClusters(files) ==
  SelectSeq(top_clusters, LAMBDA c : files[c].state = "present")

\* a drop that removes nothing
DfDrop_KeepAll(rows, labels) == rows

\* df_full.drop(labels): the rows whose label is not listed
DfDrop(rows, labels) ==
  LET keep == SelectSeq(RowsOf(Len(rows)), LAMBDA l : l \notin Range(labels))
  IN [j \in 1..Len(keep) |-> rows[keep[j] + 1]]

\* df_full.loc[labels]: the rows of the listed labels, in the order listed
DfLoc(rows, labels) == [j \in 1..Len(labels) |-> rows[labels[j] + 1]]

\* keep_mask (lines 121-124) as the set of positions still True
KeepMask(n, unique_indices_to_remove) ==
  {p \in 0..(n - 1) : p \notin Range(unique_indices_to_remove)}

\* all_embeddings[mask]: the rows at the positions of the mask, ascending
MaskRows(rows, mask) ==
  LET pos == SelectSeq(RowsOf(Len(rows)), LAMBDA q : q \in mask)
  IN [j \in 1..Len(pos) |-> rows[pos[j] + 1]]

NoOutput ==
  [stage |-> "none", loaded |-> <<>>, per_cluster |-> <<>>,
   indices_to_remove |-> <<>>, unique_indices_to_remove |-> <<>>,
   unbiased_resumes |-> <<>>, removed_entries |-> <<>>,
   unbiased_embeddings_384d |-> <<>>, removed_embeddings_384d |-> <<>>,
   pca_log |-> <<>>, all_6d |-> <<>>, unbiased_6d |-> <<>>, removed_6d |-> <<>>,
   summary |-> [original_count |-> 0, unbiased_count |-> 0, removed_count |-> 0,
                cluster_removal_counts |-> <<>>]]

\* a program that fits the object again on each partition
PcaProgram_Refit ==
  << [op |-> "fit", matrix |-> "all_embeddings"],
     [op |-> "transform", matrix |-> "all_embeddings"],
     [op |-> "fit", matrix |-> "unbiased_embeddings"],
     [op |-> "transform", matrix |-> "unbiased_embeddings"],
     [op |-> "fit", matrix |-> "removed_embeddings"],
     [op |-> "transform", matrix |-> "removed_embeddings"] >>

\* the calls made on the PCA object, in program order (lines 149-155)
PcaProgram ==
  << [op |-> "fit", matrix |-> "all_embeddings"],
     [op |-> "transform", matrix |-> "all_embeddings"],
     [op |-> "transform", matrix |-> "unbiased_embeddings"],
     [op |-> "transform", matrix |-> "removed_embeddings"] >>

\* the PCA object before fit, with no call made and nothing transformed
NewPca ==
  [fitted_on |-> "none", raised |-> FALSE, log |-> <<>>,
   result |-> [all_embeddings |-> <<>>, unbiased_embeddings |-> <<>>,
               removed_embeddings |-> <<>>]]

\* Runs the calls of `program` on the PCA object `pca` over the matrices
\* `mats` (by name).  fit raises on fewer rows than components, transform on
\* an unfitted object or a matrix of 0 rows; a call that returns is logged
\* with the matrix the object was fitted on when the call was made.
RECURSIVE RunPca(_, _, _, _)
RunPca(program, profile, mats, pca) ==
  IF program = <<>> \/ pca.raised THEN pca
  ELSE LET call == Head(program)
           entry == [op |-> call.op, matrix |-> call.matrix,
                     fitted_on |-> pca.fitted_on]
       IN IF call.op = "fit"
          THEN IF Len(mats[call.matrix]) < NComponents
               THEN [pca EXCEPT !.raised = TRUE]
               ELSE RunPca(Tail(program), profile, mats,
                           [pca EXCEPT !.fitted_on = call.matrix,
                                       !.log = Append(@, entry)])
          ELSE IF pca.fitted_on = "none" \/ mats[call.matrix] = <<>>
               THEN [pca EXCEPT !.raised = TRUE]
               ELSE RunPca(Tail(program), profile, mats,
                           [pca EXCEPT
                              !.log = Append(@, entry),
                              !.result[call.matrix] =
                                 PcaTransform(profile, mats[pca.fitted_on],
                                              mats[call.matrix])])

\* lines 90-128: the record and embedding partitions
SplitDataset(df_full, all_embeddings, unique_indices_to_remove) ==
  LET keep_mask == KeepMask(Len(all_embeddings), unique_indices_to_remove)
  IN [df_unbiased |-> DfDrop(df_full, unique_indices_to_remove),
      removed_df |-> DfLoc(df_full, unique_indices_to_remove),
      unbiased_embeddings |-> MaskRows(all_embeddings, keep_mask),
      removed_embeddings |->
        MaskRows(all_embeddings, (0..(Len(all_embeddings) - 1)) \ keep_mask)]

\* lines 146-164: the PCA calls, then the normalisation of the three results
ReduceTo6d(profile, all_embeddings, unbiased_embeddings, removed_embeddings) ==
  LET pca == RunPca(PcaProgram, profile,
                    [all_embeddings |-> all_embeddings,
                     unbiased_embeddings |-> unbiased_embeddings,
                     removed_embeddings |-> removed_embeddings],
                    NewPca)
  IN [raised |-> pca.raised,
      pca_log |-> pca.log,
      all_6d |-> unbiased_normalize_embeddings(pca.result.all_embeddings),
      unbiased_6d |-> unbiased_normalize_embeddings(pca.result.unbiased_embeddings),
      removed_6d |-> unbiased_normalize_embeddings(pca.result.removed_embeddings)]

\* create_unbiased_dataset() as called by main.py step 3
Stage3 ==
  /\ pc = "stage3"
  /\ IF ~Exists(cleaned_resumes_csv) \/ ~Exists(resume_embeddings_npy) \/ ~clusters_dir
     THEN \* returns None; main.py fails to unpack the result
          /\ pc' = "failed"
          /\ out' = [out EXCEPT !.stage = "no_result"]
          /\ UNCHANGED <<rng, reduction_log>>
     ELSE
       \E all_embeddings \in {resume_embeddings_npy.rows},
          df_full \in {cleaned_resumes_csv.rows},
          sel \in {SelectRemovals(rng, LoadedClusters(cluster_json), cluster_json)} :
       \E unique_indices_to_remove \in {ListOfSet(sel.indices_to_remove)} :
         /\ rng' = sel.rng
         /\ IF \E l \in Range(unique_indices_to_remove) : l >= Len(df_full)
            THEN \* df.drop raises KeyError before anything is written
                 /\ pc' = "failed"
                 /\ out' = [out EXCEPT !.stage = "key_error"]
                 /\ UNCHANGED reduction_log
            ELSE
              \E split \in {SplitDataset(df_full, all_embeddings,
                                         unique_indices_to_remove)} :
              \E written \in
                   {[NoOutput EXCEPT
                       !.stage = "split",
                       !.loaded = LoadedClusters(cluster_json),
                       !.per_cluster = sel.per_cluster,
                       !.indices_to_remove = sel.indices_to_remove,
                       !.unique_indices_to_remove = unique_indices_to_remove,
                       !.unbiased_resumes = split.df_unbiased,
                       !.removed_entries = split.removed_df,
                       !.unbiased_embeddings_384d = split.unbiased_embeddings,
                       !.removed_embeddings_384d = split.removed_embeddings]} :
                \E red \in {ReduceTo6d(norm_profile, all_embeddings,
                                       split.unbiased_embeddings,
                                       split.removed_embeddings)} :
                  IF red.raised
                  THEN \* PCA raises ValueError after the CSV and 384-D
                       \* files are written
                       /\ pc' = "failed"
                       /\ out' = [written EXCEPT !.pca_log = red.pca_log]
                       /\ UNCHANGED reduction_log
                  ELSE
                     /\ pc' = "completed"
                     /\ reduction_log' =
                          reduction_log \cup
                            {Reduction(m, 0, UnbiasedReductionSteps) :
                               m \in {"all_embeddings", "unbiased_embeddings",
                                      "removed_embeddings"}}
                     /\ out' =
                          [written EXCEPT
                             !.stage = "returned",
                             !.pca_log = red.pca_log,
                             !.all_6d = red.all_6d,
                             !.unbiased_6d = red.unbiased_6d,
                             !.removed_6d = red.removed_6d,
                             !.summary =
                                [original_count |-> Len(df_full),
                                 unbiased_count |-> Len(split.df_unbiased),
                                 removed_count |-> Len(unique_indices_to_remove),
                                 cluster_removal_counts |->
                                   [j \in 1..Len(sel.per_cluster) |->
                                      [cluster |-> sel.per_cluster[j].cluster,
                                       count |-> Len(sel.per_cluster[j].resume_ids_to_remove)]]]]
  /\ markers' = WriteMarker(markers, job_id, StageOutcome)
  /\ UNCHANGED <<probe, uploads, reported, job_id, procs, input, n_clusters,
                 norm_profile, resume_embeddings_npy, embedded, cluster_files,
                 cleaned_resumes_csv, clusters_dir, cluster_csv, all_clusters_csv,
                 cluster_json, cluster_6d, analyses, densest, faults>>

\* ------------------------------------------------------- environment
\* Between the stages another user of the working directory deletes or
\* damages the embeddings file of one target cluster.
MaxFaults == 1

EnvRemoveEmbeddings(c) ==
  /\ pc = "stage3"
  /\ faults < MaxFaults
  /\ cluster_json[c].state = "present"
  /\ cluster_json' = [cluster_json EXCEPT ![c] = NoFile]
  /\ faults' = faults + 1
  /\ UNCHANGED <<probe, uploads, markers, reported, reduction_log, job_id, procs,
                 pc, input, n_clusters, norm_profile, resume_embeddings_npy,
                 embedded, cluster_files,
                 cleaned_resumes_csv, clusters_dir, cluster_csv, all_clusters_csv,
                 cluster_6d, analyses, densest, rng, out>>

EnvCorruptEmbeddings(c) ==
  /\ pc = "stage3"
  /\ faults < MaxFaults
  /\ cluster_json[c].state = "present"
  /\ cluster_json' = [cluster_json EXCEPT ![c] = CorruptFile]
  /\ faults' = faults + 1
  /\ UNCHANGED <<probe, uploads, markers, reported, reduction_log, job_id, procs,
                 pc, input, n_clusters, norm_profile, resume_embeddings_npy,
                 embedded, cluster_files,
                 cleaned_resumes_csv, clusters_dir, cluster_csv, all_clusters_csv,
                 cluster_6d, analyses, densest, rng, out>>

\* ------------------------------------------------------- specification
\* states of the global generator when the pipeline starts: never seeded by
\* the program (seed 0 stands for the OS entropy), or seeded and used before
RngStates == {[seed |-> 0, pos |-> 0], [seed |-> Seed, pos |-> 3]}

\* main.py: cluster_count = max(1, min(10, args.cluster_count))
ClampClusterCount(c) ==
  LET m == IF c < 10 THEN c ELSE 10 IN IF m > 1 THEN m ELSE 1

\* int(text) raises ValueError for an integer literal of more digits than
\* this (the interpreter's default limit for str -> int conversion)
IntMaxStrDigits == 4300

\* the cluster_count field of the upload form: absent, an integer literal
\* (its value, and its number of digits, leading zeros included), or any
\* other text ("", "5.0", "abc")
FormField(kind, value, digits) == [kind |-> kind, value |-> value, digits |-> digits]

\* int(cluster_count) at flask_app.py line 354
IntRaisesValueError(field) ==
  \/ field.kind = "other"
  \/ field.kind = "integer" /\ field.digits > IntMaxStrDigits

\* an upload_file that clamps only, and lets the default pass for a bad value
FormClusterCount_DefaultUnparsed(field) ==
  IF field.kind = "integer" /\ field.digits <= IntMaxStrDigits
  THEN LET m == IF field.value < 10 THEN field.value ELSE 10
       IN IF m > 1 THEN m ELSE 1
  ELSE 0

\* upload_file lines 352-359: request.form.get('cluster_count', '6'), int(),
\* max(1, min(10, .)), and 6 on ValueError
FormClusterCount(field) ==
  IF field.kind = "missing" THEN 6
  ELSE IF IntRaisesValueError(field) THEN 6
  ELSE LET m == IF field.value < 10 THEN field.value ELSE 10
       IN IF m > 1 THEN m ELSE 1

\* position and arguments of a main.py process: none, or a process that
\* has ended and of which only the position is left
NoProc ==
  [pc |-> "none",
   input |-> [exists |-> FALSE, rows |-> 0, index_column |-> FALSE, index_base |-> 0,
              clustering |-> "any"],
   n_clusters |-> 1,
   densest |-> [labels |-> <<>>, indices |-> <<>>],
   cluster_files |-> <<>>,
   rng |-> [seed |-> 0, pos |-> 0]]

\* no call of the clustering code is being examined
NoCall == [kind |-> "none", state |-> "none"]

\* a fresh working directory and one input file
Init ==
  /\ pc = "stage1"
  /\ input \in {i \in [exists : BOOLEAN, rows : {N}, index_column : BOOLEAN,
                        index_base : {0, IndexShift, PartialShift},
                        clustering : {"any"}] :
                  i.index_base # 0 => i.exists /\ i.index_column}
  /\ n_clusters \in {ClampClusterCount(c) : c \in 0..MaxK}
  /\ norm_profile = "regular"
  /\ resume_embeddings_npy = NoFile
  /\ embedded = "any"
  /\ cluster_files = <<>>
  /\ cleaned_resumes_csv = NoFile
  /\ clusters_dir = FALSE
  /\ cluster_csv = [r \in Ranks |-> NoFile]
  /\ all_clusters_csv = NoFile
  /\ cluster_json = [r \in Ranks |-> NoFile]
  /\ cluster_6d = [r \in Ranks |-> NoFile]
  /\ analyses = {}
  /\ densest = [labels |-> <<>>, indices |-> <<>>]
  /\ rng \in RngStates
  /\ faults = 0
  /\ out = NoOutput
  /\ probe = NoCall
  /\ uploads = [j \in Jobs |-> "none"]
  /\ markers = [j \in Jobs |-> {}]
  /\ reported = [j \in Jobs |-> "none"]
  /\ reduction_log = {}
  /\ job_id = RunJob
  /\ procs = [j \in Jobs |-> NoProc]

Next ==
  \/ Stage1
  \/ generate_embeddings
  \/ Stage2
  \/ analyze_cluster
  \/ Stage3
  \/ \E c \in Range(top_clusters) : EnvRemoveEmbeddings(c)
  \/ \E c \in Range(top_clusters) : EnvCorruptEmbeddings(c)

Spec == Init /\ [][Next]_vars

\* ------------------------------------- find_dense_clusters on its own
\* The density ranking is a function of the label array HDBSCAN returns, of
\* the average neighbour distance of each cluster and of n_clusters.  Here it
\* is applied to every label array over DensePoints points with labels
\* -1..DenseLabels-1, and the density computation to every cluster size up
\* to MaxClusterPoints.
DensePoints == 4
DenseLabels == 2
MaxClusterPoints == 8
MaxFormValue == 12

\* cluster_count fields tried
FormFields ==
  {FormField("missing", 0, 0), FormField("other", 0, 0)}
    \cup {FormField("integer", v, d) :
            v \in (0 - 2)..MaxFormValue,
            d \in {2, IntMaxStrDigits, IntMaxStrDigits + 1}}


\* no pipeline is running and the working directory is empty
NoPipeline ==
  /\ pc = "none"
  /\ input = [exists |-> FALSE, rows |-> 0, index_column |-> FALSE,
              index_base |-> 0, clustering |-> "any"]
  /\ n_clusters = 1
  /\ norm_profile = "regular"
  /\ resume_embeddings_npy = NoFile
  /\ embedded = "any"
  /\ cluster_files = <<>>
  /\ cleaned_resumes_csv = NoFile
  /\ clusters_dir = FALSE
  /\ cluster_csv = [r \in Ranks |-> NoFile]
  /\ all_clusters_csv = NoFile
  /\ cluster_json = [r \in Ranks |-> NoFile]
  /\ cluster_6d = [r \in Ranks |-> NoFile]
  /\ analyses = {}
  /\ densest = [labels |-> <<>>, indices |-> <<>>]
  /\ rng = [seed |-> 0, pos |-> 0]
  /\ faults = 0
  /\ out = NoOutput

PipelineVars == <<pc, input, n_clusters, norm_profile, resume_embeddings_npy,
                  embedded, cluster_files, cleaned_resumes_csv, clusters_dir, cluster_csv,
                  all_clusters_csv, cluster_json, cluster_6d, analyses,
                  densest, rng, faults, out>>

InitDense ==
  /\ NoPipeline
  /\ uploads = [j \in Jobs |-> "none"]
  /\ markers = [j \in Jobs |-> {}]
  /\ reported = [j \in Jobs |-> "none"]
  /\ reduction_log = {}
  /\ job_id = NoJob
  /\ procs = [j \in Jobs |-> NoProc]
  /\ \/ \E m \in 0..MaxClusterPoints, d \in DistValues :
          probe = [kind |-> "density", state |-> "ready", m |-> m, avg_dist |-> d]
     \/ \E lab \in [1..DensePoints -> -1..(DenseLabels - 1)],
           ds \in [0..(DenseLabels - 1) -> DistValues],
           k \in {ClampClusterCount(c) : c \in 0..MaxK} :
          probe = [kind |-> "find_dense_clusters", state |-> "ready",
                  cluster_labels |-> lab, avg_dists |-> ds, n_clusters |-> k]
     \/ \E f \in FormFields :
          probe = [kind |-> "cluster_count", state |-> "ready", field |-> f]

\* one pass of the loop body of find_dense_clusters (lines 67-76) for a
\* cluster of m points; searched tells whether NearestNeighbors was used
ComputeDensity ==
  /\ probe.kind = "density" /\ probe.state = "ready"
  /\ probe' = [kind |-> "density", state |-> "returned",
              m |-> probe.m, avg_dist |-> probe.avg_dist,
              k |-> NeighbourCount(probe.m),
              searched |-> NeighbourCount(probe.m) > 0,
              density |-> Density(probe.m, probe.avg_dist)]
  /\ UNCHANGED <<PipelineVars, uploads, markers, reported, reduction_log,
                 job_id, procs>>

CallFindDenseClusters ==
  /\ probe.kind = "find_dense_clusters" /\ probe.state = "ready"
  /\ \E v \in {DenseClusterLocals(probe.cluster_labels, probe.avg_dists, probe.n_clusters)},
        res \in {find_dense_clusters(probe.cluster_labels, probe.avg_dists,
                                     probe.n_clusters)} :
       probe' = [kind |-> "find_dense_clusters", state |-> "returned",
                cluster_labels |-> probe.cluster_labels,
                avg_dists |-> probe.avg_dists,
                n_clusters |-> probe.n_clusters,
                locals |-> v, result |-> res]
  /\ UNCHANGED <<PipelineVars, uploads, markers, reported, reduction_log,
                 job_id, procs>>

\* embeddings.main lines 178-180 on the returned lists, for a table with one
\* record per clustered point, in an empty clusters directory
CallSaveClusters ==
  /\ probe.kind = "find_dense_clusters" /\ probe.state = "returned"
  /\ HasClusters(probe.result.indices)
  /\ \E saved \in {save_clusters_to_csv(RowsOf(Len(probe.cluster_labels)),
                                         probe.result.indices,
                                         [r \in Ranks |-> NoFile])} :
       probe' = [kind |-> "find_dense_clusters", state |-> "saved",
                cluster_labels |-> probe.cluster_labels,
                avg_dists |-> probe.avg_dists,
                n_clusters |-> probe.n_clusters,
                locals |-> probe.locals, result |-> probe.result,
                files |-> saved]
  /\ UNCHANGED <<PipelineVars, uploads, markers, reported, reduction_log,
                 job_id, procs>>

\* the way of the cluster count from the upload form to the call of
\* embeddings_main: upload_file lines 352-359, the --cluster_count argument
\* of the subprocess (lines 381-387), main.py line 93 and line 118
PassClusterCount ==
  /\ probe.kind = "cluster_count" /\ probe.state = "ready"
  /\ probe' = [kind |-> "cluster_count", state |-> "returned",
               field |-> probe.field,
               argument |-> FormClusterCount(probe.field),
               n_clusters |-> ClampClusterCount(FormClusterCount(probe.field))]
  /\ UNCHANGED <<PipelineVars, uploads, markers, reported, reduction_log,
                 job_id, procs>>

NextDense ==
  \/ PassClusterCount
  \/ ComputeDensity
  \/ CallFindDenseClusters
  \/ CallSaveClusters

SpecDense == InitDense /\ [][NextDense]_vars

\* ------------------------------------- a run in a used working directory
\* main.py runs in the directory of the service and never removes the
\* artefacts of an earlier run.  Here the run starts in the directory an
\* earlier run on another input of N records has left behind: that run
\* found no cluster, so it wrote resume_embeddings.npy and
\* cleaned_resumes.csv and nothing else.  The records of the earlier input
\* are named N, N+1, ... to tell them from the records 0, 1, ... of the
\* input of this run.
EarlierRows(n) == [p \in 1..n |-> N + (p - 1)]

\* The working directory holds what an earlier run left: either the two
\* tables of a run on another input, or everything stages 1 and 2 of a run
\* on the same input with MaxK clusters wrote, the analysis files of
\* cluster_analysis/ included (find_dense_clusters returned
\* `found`, cluster_analysis listed the cluster files in the order `order`).
InitRerun ==
  /\ pc = "stage1"
  /\ \/ /\ input \in [exists : {TRUE}, rows : {N - 1, N}, index_column : BOOLEAN,
                       index_base : {0}, clustering : {"any"}]
        /\ resume_embeddings_npy = File(EarlierRows(N))
        /\ cleaned_resumes_csv = File(EarlierRows(N))
        /\ clusters_dir = FALSE
        /\ cluster_csv = [r \in Ranks |-> NoFile]
        /\ all_clusters_csv = NoFile
        /\ cluster_json = [r \in Ranks |-> NoFile]
        /\ cluster_6d = [r \in Ranks |-> NoFile]
        /\ analyses = {}
     \/ /\ input \in [exists : {TRUE}, rows : {N}, index_column : BOOLEAN,
                       index_base : {0}, clustering : {"any"}]
        /\ resume_embeddings_npy = File(RowsOf(N))
        /\ cleaned_resumes_csv = File(RowsOf(N))
        /\ clusters_dir = TRUE
        /\ \E lab \in Labellings, dp \in DistProfiles :
           \E found \in {find_dense_clusters(
                            lab, [l \in 0..(NumBlocks - 1) |-> AvgDist(dp, l)],
                            MaxK)} :
           \E order \in Orders(1..Len(found.indices)) :
           \E stage1 \in {save_clusters_to_csv(RowsOf(N), found.indices,
                                                [r \in Ranks |-> NoFile])} :
             /\ HasClusters(found.indices)
             /\ cluster_csv = stage1.cluster_csv
             /\ all_clusters_csv =
                  File(ExportColumn(order, N, input.index_column, cluster_csv))
             /\ \E saved \in {[r \in Ranks |->
                                  SaveClusterEmbeddings("regular", input.index_column,
                                                        cluster_csv[r].rows,
                                                        resume_embeddings_npy)]} :
                  /\ cluster_json =
                       [r \in Ranks |->
                          IF saved[r].outcome = "ok" THEN File(saved[r].json)
                          ELSE NoFile]
                  /\ cluster_6d =
                       [r \in Ranks |->
                          IF saved[r].outcome = "ok" THEN File(saved[r].six_d)
                          ELSE NoFile]
                  /\ analyses = {r \in Ranks : saved[r].outcome = "ok"}
  /\ n_clusters \in {ClampClusterCount(c) : c \in 0..MaxK}
  /\ norm_profile = "regular"
  /\ embedded = "any"
  /\ cluster_files = <<>>
  /\ densest = [labels |-> <<>>, indices |-> <<>>]
  /\ rng \in RngStates
  /\ faults = 0
  /\ out = NoOutput
  /\ probe = NoCall
  /\ uploads = [j \in Jobs |-> "none"]
  /\ markers = [j \in Jobs |-> {}]
  /\ reported = [j \in Jobs |-> "none"]
  /\ reduction_log = {}
  /\ job_id = RunJob
  /\ procs = [j \in Jobs |-> NoProc]

NextRerun ==
  \/ Stage1
  \/ Stage2
  \/ analyze_cluster
  \/ Stage3

SpecRerun == InitRerun /\ [][NextRerun]_vars

\* upload_file up to line 368: the request is refused before anything is
\* written (lines 341-350), or uploads/<id> is made (line 364) and the file is
\* being saved
upload_file(j) ==
  /\ uploads[j] = "none"
  /\ \A i \in Jobs : i < j => uploads[i] # "none"
  /\ \E outcome \in {"rejected", "saving"} :
       uploads' = [uploads EXCEPT ![j] = outcome]
  /\ UNCHANGED <<PipelineVars, probe, markers, reported, reduction_log,
                 job_id, procs>>

\* the tables uploaded: N records with their row index in 'Unnamed: 0',
\* which fall into one dense cluster per block, or in which HDBSCAN finds no
\* cluster
UploadInputs ==
  [exists : {TRUE}, rows : {N}, index_column : {TRUE}, index_base : {0},
   clustering : {"blocks", "scattered"}]

\* the cluster counts uploaded with them
UploadClusterCounts ==
  {ClampClusterCount(FormClusterCount(FormField("integer", MaxK, 2)))}

\* upload_file lines 370-400: the table has no 'Resume_str' column (400, the
\* directory stays), reading it or starting the process raises (the
\* directory is removed, 500), or main.py is started with the saved file,
\* the id of the upload and the cluster count
upload_file_validate(j) ==
  /\ uploads[j] = "saving"
  /\ \/ /\ \E outcome \in {"abandoned", "rejected"} :
             uploads' = [uploads EXCEPT ![j] = outcome]
        /\ UNCHANGED procs
     \/ /\ uploads' = [uploads EXCEPT ![j] = "started"]
        /\ \E i \in UploadInputs, k \in UploadClusterCounts :
             procs' = [procs EXCEPT ![j] =
                         [pc |-> "stage1", input |-> i, n_clusters |-> k,
                          densest |-> NoProc.densest,
                          cluster_files |-> <<>>, rng |-> NoProc.rng]]
  /\ UNCHANGED <<PipelineVars, probe, markers, reported, reduction_log, job_id>>

\* where upload j stands: what upload_file made of it and, once main.py is
\* started, the position of its process
Status(j) ==
  IF uploads[j] # "started" THEN uploads[j]
  ELSE IF j = job_id THEN pc
  ELSE procs[j].pc

\* the positions of a main.py process inside its three stages
Running ==
  {"stage1", "generate_embeddings", "stage2", "analyze_cluster", "stage3"}

\* the process started for upload j is in one of the three stages of main.py
Active(j) == Status(j) \in Running

\* what is kept of the process followed so far when another one is followed
Suspended ==
  IF pc \in Running
  THEN [pc |-> pc, input |-> input, n_clusters |-> n_clusters,
        densest |-> densest, cluster_files |-> cluster_files, rng |-> rng]
  ELSE [NoProc EXCEPT !.pc = pc]

\* the processes run side by side in one working directory (Popen is given
\* no cwd): the next to go on, where a step of a stage ends, is process j
Schedule(j) ==
  /\ j # job_id
  /\ uploads[j] = "started"
  /\ procs[j].pc \in Running
  /\ procs' = [i \in Jobs |->
                 IF i = j THEN NoProc
                 ELSE IF i = job_id THEN Suspended
                 ELSE procs[i]]
  /\ job_id' = j
  /\ pc' = procs[j].pc
  /\ input' = procs[j].input
  /\ n_clusters' = procs[j].n_clusters
  /\ densest' = procs[j].densest
  /\ cluster_files' = procs[j].cluster_files
  /\ rng' = procs[j].rng
  /\ UNCHANGED <<norm_profile, resume_embeddings_npy, embedded, cleaned_resumes_csv,
                 clusters_dir, cluster_csv, all_clusters_csv, cluster_json,
                 cluster_6d, analyses, faults, out, probe, uploads, markers,
                 reported, reduction_log>>

\* the pipeline process of upload j goes on to where it waits next, or to
\* the end of its stage
PipelineStep(j) ==
  /\ job_id = j
  /\ \/ Stage1
     \/ generate_embeddings
     \/ Stage2
     \/ analyze_cluster
     \/ Stage3

\* uploads/<id> exists: upload_file made it (line 364) and did not remove it
\* again (line 399)
JobDirExists(j) == uploads[j] \notin {"none", "rejected"}

\* a get_job_status that does not look at the failed marker
JobStatus_IgnoresFailed(dir_exists, files) ==
  IF ~dir_exists THEN "404"
  ELSE IF "completed" \in files THEN "completed"
  ELSE "processing"

\* get_job_status lines 405-438
JobStatus(dir_exists, files) ==
  IF ~dir_exists THEN "404"
  ELSE IF "completed" \in files THEN "completed"
  ELSE IF "failed" \in files THEN "failed"
  ELSE "processing"

\* GET /api/jobs/<id>/status for the id of upload j, which upload_file has
\* made before (line 362)
get_job_status(j) ==
  /\ uploads[j] # "none"
  /\ reported' = [reported EXCEPT ![j] = JobStatus(JobDirExists(j), markers[j])]
  /\ UNCHANGED <<PipelineVars, probe, uploads, markers, reduction_log,
                 job_id, procs>>

InitHttp ==
  /\ NoPipeline
  /\ probe = NoCall
  /\ uploads = [j \in Jobs |-> "none"]
  /\ markers = [j \in Jobs |-> {}]
  /\ reported = [j \in Jobs |-> "none"]
  /\ reduction_log = {}
  /\ job_id = NoJob
  /\ procs = [j \in Jobs |-> NoProc]

NextHttp ==
  \/ \E j \in Jobs : upload_file(j)
  \/ \E j \in Jobs : upload_file_validate(j)
  \/ \E j \in Jobs : Schedule(j)
  \/ \E j \in Jobs : PipelineStep(j)
  \/ \E j \in Jobs : get_job_status(j)

SpecHttp == InitHttp /\ [][NextHttp]_vars

\* ------------------------------------------------------- properties
\* create_unbiased_dataset got as far as choosing and applying a removal set
Selected == out.stage \in {"split", "returned"}

\* the resume ids stored in the embeddings file of target cluster c
MemberIds(c) == {cluster_json[c].rows[j].resume_id : j \in 1..Len(cluster_json[c].rows)}

\* C1: every index removed on behalf of target cluster c is the original row
\* index of a record that find_dense_clusters placed in the cluster of rank c,
\* and no record outside the target clusters is removed.
C1_RemovedAreClusterMembers ==
  Selected =>
    /\ \A j \in 1..Len(out.per_cluster) :
         LET c == out.per_cluster[j].cluster
         IN /\ c <= Len(densest.indices)
            /\ Range(out.per_cluster[j].resume_ids_to_remove)
                 \subseteq Range(densest.indices[c])
    /\ Range(out.unique_indices_to_remove) \subseteq
         UNION {Range(densest.indices[c]) :
                  c \in {t \in Range(top_clusters) : t <= Len(densest.indices)}}

\* C2: for every cluster processed, the number of indices selected is
\* floor(u / 2) with u the number of distinct member ids, and the selected
\* indices are distinct and drawn from the member ids of that cluster.
C2_HalfOfDistinctMembers ==
  Selected =>
    \A j \in 1..Len(out.per_cluster) :
      LET c == out.per_cluster[j].cluster
          u == Cardinality(MemberIds(c))
          chosen == out.per_cluster[j].resume_ids_to_remove
      IN /\ 2 * Len(chosen) <= u
         /\ u <= 2 * Len(chosen) + 1
         /\ Cardinality(Range(chosen)) = Len(chosen)
         /\ Range(chosen) \subseteq MemberIds(c)

\* a cluster with an odd number of distinct members was processed
C2_Witness ==
  /\ out.stage = "returned"
  /\ \E j \in 1..Len(out.per_cluster) :
       /\ Cardinality(MemberIds(out.per_cluster[j].cluster)) % 2 = 1
       /\ Len(out.per_cluster[j].resume_ids_to_remove) >= 5

\* C3: when create_unbiased_dataset returns a result, the kept and the
\* removed index sets are disjoint, together they are [0, N), and
\* unbiased_count + removed_count = original_count.
C3_PartitionOfRecords ==
  out.stage = "returned" =>
    /\ Range(out.unbiased_resumes) \cap Range(out.removed_entries) = {}
    /\ Range(out.unbiased_resumes) \cup Range(out.removed_entries)
         = 0..(input.rows - 1)
    /\ Len(out.unbiased_resumes) + Len(out.removed_entries) = input.rows
    /\ out.summary.original_count = input.rows
    /\ out.summary.unbiased_count + out.summary.removed_count
         = out.summary.original_count

\* a result with records on both sides of the partition
C3_Witness ==
  /\ out.stage = "returned"
  /\ Len(out.removed_entries) >= 2
  /\ Len(out.unbiased_resumes) >= 2

\* states the global generator can be in when a selection starts
PriorRngStates ==
  RngStates \cup {[seed |-> Seed, pos |-> 0], [seed |-> 0, pos |-> 7],
                  [seed |-> Seed, pos |-> 11]}

\* C4: an execution from any other state of the global generator, on the same
\* member lists, selects the same removal indices, for the whole run and for
\* each cluster taken alone (whatever was drawn between two clusters).
C4_SelectionIgnoresPriorDraws ==
  Selected =>
    \A r \in PriorRngStates :
      /\ SelectRemovals(r, out.loaded, cluster_json).indices_to_remove
           = out.indices_to_remove
      /\ \A j \in 1..Len(out.per_cluster) :
           SelectRemovals(r, <<out.per_cluster[j].cluster>>, cluster_json).indices_to_remove
             = out.per_cluster[j].resume_ids_to_remove

\* two clusters were processed in one run that started from a used generator
C4_Witness ==
  /\ out.stage = "returned"
  /\ Len(out.per_cluster) >= 2
  /\ Len(out.indices_to_remove) >= 10

\* the input carries its row index in a column, so that the resume ids of
\* the cluster files are original row indices
IdsAreRowIndices == input.index_column /\ input.index_base = 0

\* C5: the rows of the kept records and the rows of the removed records both
\* appear in strictly ascending order of their original index (stated for
\* runs in which the resume ids are original row indices).
C5_PartitionsKeepOrder ==
  Selected /\ IdsAreRowIndices =>
    /\ IsAscending(out.unbiased_resumes)
    /\ IsAscending(out.removed_entries)

\* C6: in each partition the record file and the embedding arrays (full-D
\* and 6-D) have the same number of rows, and row j of each comes from the
\* same original record (stated for runs in which the resume ids are
\* original row indices).
C6_RecordsParallelToEmbeddings ==
  out.stage = "returned" /\ IdsAreRowIndices =>
    /\ Len(out.unbiased_embeddings_384d) = Len(out.unbiased_resumes)
    /\ Len(out.unbiased_6d) = Len(out.unbiased_resumes)
    /\ \A j \in 1..Len(out.unbiased_resumes) :
         /\ out.unbiased_embeddings_384d[j] = out.unbiased_resumes[j]
         /\ out.unbiased_6d[j].src = out.unbiased_resumes[j]
    /\ Len(out.removed_embeddings_384d) = Len(out.removed_entries)
    /\ Len(out.removed_6d) = Len(out.removed_entries)
    /\ \A j \in 1..Len(out.removed_entries) :
         /\ out.removed_embeddings_384d[j] = out.removed_entries[j]
         /\ out.removed_6d[j].src = out.removed_entries[j]

\* C7: the reducer is fitted exactly once, by the first call and on the full
\* matrix; every transform is made by the object fitted on the full matrix,
\* and the full matrix and both partitions are transformed.
C7_FittedOnceOnFullMatrix ==
  /\ \A k \in 1..Len(out.pca_log) :
       /\ out.pca_log[k].op = "fit" =>
            k = 1 /\ out.pca_log[k].matrix = "all_embeddings"
       /\ out.pca_log[k].op = "transform" =>
            k > 1 /\ out.pca_log[k].fitted_on = "all_embeddings"
  /\ out.stage = "returned" =>
       /\ Cardinality({k \in 1..Len(out.pca_log) : out.pca_log[k].op = "fit"}) = 1
       /\ {out.pca_log[k].matrix :
             k \in {i \in 1..Len(out.pca_log) : out.pca_log[i].op = "transform"}}
            = {"all_embeddings", "unbiased_embeddings", "removed_embeddings"}
       /\ \A j \in 1..Len(out.unbiased_6d) :
            out.unbiased_6d[j].num =
              ProjNorm(norm_profile, Range(resume_embeddings_npy.rows),
                       out.unbiased_6d[j].src)
       /\ \A j \in 1..Len(out.removed_6d) :
            out.removed_6d[j].num =
              ProjNorm(norm_profile, Range(resume_embeddings_npy.rows),
                       out.removed_6d[j].src)

\* the three transforms were made and the partitions are not empty
C7_Witness ==
  /\ out.stage = "returned"
  /\ Len(out.pca_log) = 4
  /\ out.pca_log[4].op = "transform"
  /\ out.pca_log[4].matrix = "removed_embeddings"
  /\ out.removed_6d # <<>>

\* C8: the 6-D vector written for the j-th kept and for the j-th removed
\* record is the row of the full-matrix 6-D output at the original index of
\* that record (stated for runs in which the resume ids are original row
\* indices).
C8_ReducedRowsOfRecords ==
  out.stage = "returned" /\ IdsAreRowIndices =>
    /\ \A j \in 1..Len(out.unbiased_resumes) :
         out.unbiased_6d[j] = out.all_6d[out.unbiased_resumes[j] + 1]
    /\ \A j \in 1..Len(out.removed_entries) :
         out.removed_6d[j] = out.all_6d[out.removed_entries[j] + 1]

\* the reduced, normalised arrays the program has written
WrittenReducedArrays ==
  {cluster_6d[r].rows : r \in {q \in Ranks : cluster_6d[q].state = "present"}}
    \cup {out.all_6d, out.unbiased_6d, out.removed_6d}

\* C9: no reduced vector written contains NaN or Inf; a row whose norm before
\* normalisation is zero comes out as the zero vector and every other row
\* comes out with unit norm.
C9_NormalisedRowsAreFinite ==
  \A arr \in WrittenReducedArrays :
    \A j \in 1..Len(arr) :
      /\ ~IsNaN(arr[j])
      /\ arr[j].num = 0 => IsZeroVector(arr[j])
      /\ arr[j].num # 0 => IsUnit(arr[j])

\* target clusters whose embeddings file is there and loads
PresentTargets == {c \in Range(top_clusters) : cluster_json[c].state = "present"}

\* C10: when create_unbiased_dataset runs with the embeddings file of one
\* target cluster missing or unreadable and that of another present, it
\* processes exactly the clusters that load, writes both partitions and
\* returns, and the removal set is the union of the selections made.
C10_SkipsOnlyUnloadableCluster ==
  (/\ out.stage \notin {"none", "no_result"}
   /\ PresentTargets # {}
   /\ PresentTargets # Range(top_clusters)) =>
    /\ pc = "completed"
    /\ out.stage = "returned"
    /\ {out.per_cluster[j].cluster : j \in 1..Len(out.per_cluster)} = PresentTargets
    /\ \A j \in 1..Len(out.per_cluster) :
         Len(out.per_cluster[j].resume_ids_to_remove)
           = Cardinality(MemberIds(out.per_cluster[j].cluster)) \div 2
    /\ Range(out.unique_indices_to_remove) =
         UNION {Range(out.per_cluster[j].resume_ids_to_remove) :
                  j \in 1..Len(out.per_cluster)}
    /\ Range(out.removed_entries) = Range(out.unique_indices_to_remove)
    /\ Range(out.unbiased_resumes) =
         (0..(input.rows - 1)) \ Range(out.unique_indices_to_remove)

\* the file of cluster 1 was written by stage 2 and then lost or damaged,
\* and the run went on with cluster 2
C10_Witness ==
  /\ out.stage = "returned"
  /\ faults = 1
  /\ cluster_json[1].state # "present"
  /\ cluster_6d[1].state = "present"
  /\ out.loaded = <<2>>
  /\ Len(out.removed_entries) >= 5

\* find_dense_clusters has returned in the call taken on its own
Returned == probe.kind = "find_dense_clusters" /\ probe.state = "returned"

\* ... and found at least one cluster
Ranked == Returned /\ Len(probe.locals.unique_clusters) > 0

DensityOf(l) == probe.locals.cluster_densities[l]

MembersOf(l) == {i \in 0..(Len(probe.cluster_labels) - 1) : probe.cluster_labels[i + 1] = l}

SameDensity(a, b) == ~DensityLess(a, b) /\ ~DensityLess(b, a)

\* C11: the returned clusters are in descending order of density, and two
\* returned clusters of equal density are in ascending order of their label.
C11_RankedByDensityThenLabel ==
  Returned =>
    LET labs == probe.result.labels
    IN \A i, j \in 1..Len(labs) :
         i < j =>
           \/ DensityLess(DensityOf(labs[j]), DensityOf(labs[i]))
           \/ /\ SameDensity(DensityOf(labs[i]), DensityOf(labs[j]))
              /\ labs[i] < labs[j]

\* two clusters of equal, nonzero density are returned
C11_Witness ==
  /\ Returned
  /\ probe.result.labels = <<0, 1>>
  /\ SameDensity(DensityOf(0), DensityOf(1))
  /\ PositiveFinite(DensityOf(0))

\* C12: find_dense_clusters returns min(K, number of clusters) clusters, the
\* first ones of the density ranking: no cluster left out is denser than a
\* returned one; the index list is parallel to the label list.
C12_TopKOfRanking ==
  Returned =>
    LET labs == probe.result.labels
        idx == probe.result.indices
        clusters == Range(probe.cluster_labels) \ {-1}
        k == probe.n_clusters
    IN /\ Len(labs) = IF k < Cardinality(clusters) THEN k ELSE Cardinality(clusters)
       /\ Len(idx) = Len(labs)
       /\ Range(labs) \subseteq clusters
       /\ Cardinality(Range(labs)) = Len(labs)
       /\ \A r \in 1..Len(labs) : Range(idx[r]) = MembersOf(labs[r])
       /\ labs # <<>> => labs = SubSeq(probe.locals.sorted_clusters, 1, Len(labs))
       /\ \A l \in clusters \ Range(labs) :
            \A r \in 1..Len(labs) : ~DensityLess(DensityOf(labs[r]), DensityOf(l))

\* K = 1, two clusters, and the one returned is the denser one with the
\* greater label
C12_Witness ==
  /\ Returned
  /\ probe.n_clusters = 1
  /\ Range(probe.cluster_labels) \ {-1} = {0, 1}
  /\ probe.result.labels = <<1>>
  /\ DensityLess(DensityOf(0), DensityOf(1))
  /\ PositiveFinite(DensityOf(0))

RECURSIVE SumOfSizes(_, _)
SumOfSizes(member_lists, labels) ==
  IF labels = {} THEN 0
  ELSE LET l == CHOOSE x \in labels : TRUE
       IN Len(member_lists[l]) + SumOfSizes(member_lists, labels \ {l})

\* C13: every point is noise or in the member list of exactly one cluster;
\* the member lists are pairwise disjoint and hold no noise point, and the
\* noise count plus the sizes of all clusters is the number of points.
C13_LabelsPartitionPoints ==
  Ranked =>
    LET ci == probe.locals.cluster_indices
        n == Len(probe.cluster_labels)
        holders(i) == {l \in DOMAIN ci : i \in Range(ci[l])}
    IN /\ \A i \in 0..(n - 1) :
            IF probe.cluster_labels[i + 1] = -1 THEN holders(i) = {}
            ELSE Cardinality(holders(i)) = 1
       /\ \A a, b \in DOMAIN ci : a # b => Range(ci[a]) \cap Range(ci[b]) = {}
       /\ \A l \in DOMAIN ci : Range(ci[l]) \subseteq 0..(n - 1)
       /\ probe.locals.noise_count + SumOfSizes(ci, DOMAIN ci) = n

\* two clusters and a noise point
C13_Witness ==
  /\ Ranked
  /\ DOMAIN probe.locals.cluster_indices = {0, 1}
  /\ probe.locals.noise_count = 1
  /\ Len(probe.locals.cluster_indices[1]) = 2

\* C14: every member list is in strictly ascending order of index (hence
\* without duplicates), in the result and for the clusters left out.
C14_MembersAscending ==
  Returned =>
    /\ \A r \in 1..Len(probe.result.indices) : IsAscending(probe.result.indices[r])
    /\ Ranked => \A l \in DOMAIN probe.locals.cluster_indices :
                   IsAscending(probe.locals.cluster_indices[l])

\* a returned cluster whose members are not neighbours in the label array
C14_Witness ==
  /\ Returned
  /\ Len(probe.result.indices) >= 1
  /\ probe.result.indices[1] = <<0, 2, 3>>

\* C15: when HDBSCAN finds no cluster, embeddings.main gets the empty result,
\* writes no file of clusters/ and returns normally to main.py.
C15_EmptyResultWritesNothing ==
  [][(/\ pc \in {"stage1", "generate_embeddings"}
      /\ pc' # "generate_embeddings"
      /\ input.exists
      /\ densest'.indices = <<>>) =>
       /\ densest'.labels = <<>>
       /\ pc' = "stage2"
       /\ clusters_dir' = clusters_dir
       /\ cluster_csv' = cluster_csv
       /\ all_clusters_csv' = all_clusters_csv]_vars

\* stage 1 is over after a clustering that found only noise
C15_Witness ==
  /\ pc = "stage2"
  /\ Exists(resume_embeddings_npy)
  /\ densest.indices = <<>>
  /\ ~clusters_dir

\* position of a cluster in the density ranking
RankOf(l) == CHOOSE r \in 1..Len(probe.locals.sorted_clusters) :
               probe.locals.sorted_clusters[r] = l

\* C16: a cluster of M >= 2 points is searched with k = min(5, M-1)
\* neighbours; a cluster of M <= 1 points gets density 0 without a search,
\* and is ranked after every cluster of at least 2 points.
C16_SingletonDensityZero ==
  /\ (probe.kind = "density" /\ probe.state = "returned") =>
       IF probe.m <= 1
       THEN ~probe.searched /\ probe.density = DoubleZero
       ELSE /\ probe.searched
            /\ probe.k = Min({5, probe.m - 1})
            /\ PositiveFinite(probe.density)
  /\ Ranked =>
       \A a, b \in DOMAIN probe.locals.cluster_indices :
          Cardinality(MembersOf(a)) <= 1 /\ Cardinality(MembersOf(b)) >= 2 =>
            /\ DensityOf(a) = DoubleZero
            /\ RankOf(b) < RankOf(a)

\* a singleton cluster with the smaller label is returned after a cluster
\* of three points
C16_Witness ==
  /\ Ranked
  /\ Cardinality(MembersOf(0)) = 1
  /\ Cardinality(MembersOf(1)) = 3
  /\ probe.result.labels = <<1, 0>>

\* C17 as stated: of two clusters with the same number (at least 2) of
\* points, the one with the smaller average distance has the strictly
\* greater density; every such density is positive and finite.
C17_StrictlyMonotone ==
  Ranked =>
    \A a, b \in DOMAIN probe.locals.cluster_indices :
       /\ Cardinality(MembersOf(a)) >= 2 =>
            PositiveFinite(DensityOf(a))
       /\ (/\ Cardinality(MembersOf(a)) = Cardinality(MembersOf(b))
           /\ Cardinality(MembersOf(a)) >= 2
           /\ DistLess(probe.avg_dists[a], probe.avg_dists[b])) =>
            DensityLess(DensityOf(b), DensityOf(a))

\* C17, amended: of two clusters with the same number (at least 2) of
\* points, the one with the smaller average distance is never the less
\* dense one (the two densities can be equal: the sum avg_dist + 1e-6 and
\* the quotient are each rounded to a double); every density of a cluster
\* of at least 2 points is positive and finite, also for avg_dist = 0.
C17_MonotoneUpToRounding ==
  Ranked =>
    \A a, b \in DOMAIN probe.locals.cluster_indices :
       /\ Cardinality(MembersOf(a)) >= 2 =>
            PositiveFinite(DensityOf(a))
       /\ (/\ Cardinality(MembersOf(a)) = Cardinality(MembersOf(b))
           /\ Cardinality(MembersOf(a)) >= 2
           /\ DistLess(probe.avg_dists[a], probe.avg_dists[b])) =>
            ~DensityLess(DensityOf(a), DensityOf(b))

\* two clusters of two points whose average distances are 0.875 and the
\* next double: the sums with 1e-6 differ, the densities are equal
C17_Witness ==
  /\ Ranked
  /\ Cardinality(MembersOf(0)) = 2 /\ Cardinality(MembersOf(1)) = 2
  /\ probe.avg_dists[0] = Dyadic(7, -3)
  /\ probe.avg_dists[1] = DoubleNextUp(Dyadic(7, -3))
  /\ DistLess(probe.avg_dists[0], probe.avg_dists[1])
  /\ AddEpsilon(probe.avg_dists[0]) # AddEpsilon(probe.avg_dists[1])
  /\ SameDensity(DensityOf(0), DensityOf(1))

\* the embeddings file of cluster r was written for fewer rows than the
\* reduction to 6-D needs
SmallCluster(r) ==
  cluster_json[r].state = "present" /\ Len(cluster_json[r].rows) < NComponents

\* the matrices create_unbiased_dataset reduces to 6-D once it has split
\* the dataset, and the 6-D arrays it wrote for them
ReducedPartitions ==
  {[matrix |-> out.unbiased_embeddings_384d, six_d |-> out.unbiased_6d],
   [matrix |-> out.removed_embeddings_384d, six_d |-> out.removed_6d]}

C19_ArtifactsOfThisInput ==
  (pc \in {"stage2", "stage3", "completed"} /\ input.exists) =>
     /\ resume_embeddings_npy = File(RowsOf(input.rows))
     /\ cleaned_resumes_csv = File(RowsOf(input.rows))

\* C20: at no time are two pipeline processes started by upload_file active
\* together in the working directory they share.
C20_OnePipelineAtATime ==
  Cardinality({j \in Jobs : Active(j)}) <= 1

\* C21: every 6-D array the program writes was produced by standardizing,
\* then projecting, then normalizing.
C21_SameThreeSteps ==
  \A e \in reduction_log : e.steps = <<"standardize", "project", "normalize">>

\* what the embeddings file of the cluster of rank r holds by the description:
\* one entry per member index returned by find_dense_clusters, with the row
\* of the embedding matrix at that index
MemberEntries(r) ==
  [j \in 1..Len(densest.indices[r]) |->
     [resume_id |-> densest.indices[r][j],
      embedding |-> RowsOf(input.rows)[densest.indices[r][j] + 1]]]

\* C22: the embeddings file written for the cluster of rank c holds exactly
\* the rows of the embedding matrix at the member indices that
\* find_dense_clusters returned for that cluster, each with the member's
\* original dataset index as resume_id.
C22_JsonHoldsClusterMembers ==
  \A r \in Ranks :
    cluster_json[r].state = "present" =>
      /\ r <= Len(densest.indices)
      /\ cluster_json[r].rows = MemberEntries(r)

\* C23: after stage 1 and after stage 2, all_clusters.csv gives record i the
\* rank of the selected cluster whose member list contains i, or -1 when no
\* selected cluster contains it.
C23_ClusterColumnIsRankOfMembership ==
  Exists(all_clusters_csv) =>
    all_clusters_csv.rows =
      [p \in 1..input.rows |->
         LET hit == {r \in 1..Len(densest.indices) :
                       (p - 1) \in Range(densest.indices[r])}
         IN IF hit = {} THEN -1 ELSE CHOOSE r \in hit : TRUE]

RECURSIVE SumOfCounts(_)
SumOfCounts(counts) ==
  IF counts = <<>> THEN 0 ELSE Head(counts).count + SumOfCounts(Tail(counts))

\* C24: the selections of distinct target clusters are pairwise disjoint, so
\* removed_count in the summary is the sum of cluster_removal_counts.
C24_SelectionsDisjoint ==
  out.stage = "returned" =>
    /\ \A j, k \in 1..Len(out.per_cluster) :
         j # k => Range(out.per_cluster[j].resume_ids_to_remove)
                    \cap Range(out.per_cluster[k].resume_ids_to_remove) = {}
    /\ out.summary.removed_count = SumOfCounts(out.summary.cluster_removal_counts)

\* save_clusters_to_csv has written the lists returned by find_dense_clusters
Saved == probe.kind = "find_dense_clusters" /\ probe.state = "saved"

\* C25: for every rank r up to the number of selected clusters, cluster_r.csv
\* holds exactly the records of the r-th densest selected cluster in
\* ascending index order, and no file of a greater rank is written; the file
\* names 1, 2, 3 therefore stand for the three densest clusters.
C25_FilesNamedByRank ==
  Saved =>
    LET labs == probe.result.labels
        files == probe.files.cluster_csv
        clusters == Range(probe.cluster_labels) \ {-1}
    IN \A r \in Ranks :
         IF r <= Len(labs)
         THEN /\ files[r].state = "present"
              /\ IsAscending(files[r].rows)
              /\ Range(files[r].rows) = MembersOf(labs[r])
              /\ Len(files[r].rows) = Cardinality(MembersOf(labs[r]))
              /\ \A l \in clusters \ {labs[q] : q \in 1..r} :
                   ~DensityLess(DensityOf(labs[r]), DensityOf(l))
              /\ \A q \in 1..(r - 1) :
                   ~DensityLess(DensityOf(labs[q]), DensityOf(labs[r]))
         ELSE files[r] = NoFile

\* two files are written, the first for the cluster of the greater label,
\* which is strictly denser
C25_Witness ==
  /\ Saved
  /\ probe.result.labels = <<1, 0>>
  /\ DensityLess(DensityOf(0), DensityOf(1))
  /\ probe.files.cluster_csv[1].rows = <<2, 3>>
  /\ probe.files.cluster_csv[2].rows = <<0, 1>>

\* the cluster count of an upload has reached embeddings_main
CountPassed == probe.kind = "cluster_count" /\ probe.state = "returned"

\* C26 as stated: the count that reaches find_dense_clusters is an integer in
\* [1,10]; an integer form value below 1 gives 1, one above 10 gives 10, and
\* a form value that is not an integer gives 6.
C26_ClampedOrSix ==
  CountPassed =>
    /\ probe.n_clusters \in 1..10
    /\ probe.field.kind = "integer" /\ probe.field.value < 1 => probe.n_clusters = 1
    /\ probe.field.kind = "integer" /\ probe.field.value > 10 => probe.n_clusters = 10
    /\ probe.field.kind = "other" => probe.n_clusters = 6

\* C26: the count that reaches find_dense_clusters is an integer in [1,10];
\* a form value that int() accepts gives 1 when below 1, 10 when above 10
\* and itself in between; a form value that int() rejects, and a request
\* without the field, give 6.
C26_ClampedWhenParsedElseSix ==
  CountPassed =>
    LET f == probe.field
        parsed == f.kind = "integer" /\ f.digits <= IntMaxStrDigits
    IN /\ probe.n_clusters \in 1..10
       /\ parsed /\ f.value < 1 => probe.n_clusters = 1
       /\ parsed /\ f.value > 10 => probe.n_clusters = 10
       /\ parsed /\ f.value \in 1..10 => probe.n_clusters = f.value
       /\ ~parsed => probe.n_clusters = 6

\* an integer above 10 written with more digits than int() converts
C26_Witness ==
  /\ CountPassed
  /\ probe.field.kind = "integer"
  /\ probe.field.value > 10
  /\ probe.field.digits > IntMaxStrDigits
  /\ probe.n_clusters = 6

\* main.py has returned
MainReturned == pc \in {"completed", "failed"}

\* C27: when main returns, exactly one of the markers completed and failed
\* is in the job directory; completed is there only after the three stages
\* returned in order, failed whenever stage 1 returned no data (and then no
\* later stage has run) or a stage raised; no marker is written before.
C27_ExactlyOneMarker ==
  /\ MainReturned => Cardinality(markers[RunJob]) = 1
  /\ ~MainReturned => markers[RunJob] = {}
  /\ "completed" \in markers[RunJob] =>
       /\ pc = "completed"
       /\ input.exists
       /\ out.stage = "returned"
  /\ pc = "failed" => markers[RunJob] = {"failed"}
  /\ (~input.exists /\ pc # "stage1") =>
       /\ markers[RunJob] = {"failed"}
       /\ analyses = {}
       /\ out.stage = "none"
       /\ reduction_log = {}

\* stage 1 returned no data and the run has left its failed marker
C27_Witness ==
  /\ ~input.exists
  /\ pc = "failed"
  /\ markers[RunJob] = {"failed"}

\* C28: a status query answers 404 without job directory, else completed if
\* the completed marker exists, else failed if the failed marker exists,
\* else processing; and once completed or failed has been reported for a
\* job, every later query for it reports the same.
C28_StatusMonotone ==
  [][\A j \in Jobs :
       /\ reported'[j] # reported[j] =>
            reported'[j] =
              IF ~JobDirExists(j) THEN "404"
              ELSE IF "completed" \in markers[j] THEN "completed"
              ELSE IF "failed" \in markers[j] THEN "failed"
              ELSE "processing"
       /\ reported[j] \in {"completed", "failed"} => reported'[j] = reported[j]]_vars

\* a job was reported as processing before and is reported as failed now,
\* while another one has been reported as completed
C28_Witness ==
  \E j, k \in Jobs :
    /\ reported[j] = "failed" /\ Status(j) = "failed"
    /\ reported[k] = "completed" /\ Status(k) = "completed"

\* C29: the cluster files that stage 2 finds when it starts (it analyzes
\* every clusters/cluster_*.csv) and the cluster embeddings that stage 3
\* loads for its targets are those of the clusters stage 1 of the current
\* run selected and wrote; nothing left by an earlier run is consumed.
C29_OnlyFilesOfThisRun ==
  /\ (pc = "stage2" /\ clusters_dir) =>
       {r \in Ranks : Exists(cluster_csv[r])} \subseteq 1..Len(densest.indices)
  /\ Range(out.loaded) \subseteq 1..Len(densest.indices)

============================================================================
